---- MODULE Spec2Model ----
(***************************************************************************)
(* Neighbourhood similarity pipeline of PC3 (Go): deterministic sampling,  *)
(* basket reader, pair accumulators (sharded and worker-local), scoring,   *)
(* top-K selection and the neighbour CSV.                                  *)
(*                                                                         *)
(* Ratings are carried as integers (number of half stars), scores as the   *)
(* exact value num / sqrt(rad) so that orderings and ties are those of the *)
(* real-valued formulas of the code.                                       *)
(***************************************************************************)
EXTENDS Integers, Sequences, FiniteSets, TLC

\* ------------------------------------------------------------------ bounds

\* longest triplet file drawn as input
MaxTriplets == 4
\* largest size of the worker pool (--workers)
MaxWorkers == 2
\* users per job block (usersPerBlock) and items per job (chunk), scaled down
usersPerBlock == 2
chunk == 1

\* identifiers appearing in the input files (dense indices after remap)
Users == 0 .. 2
Items == 0 .. 2
Ids == Users \cup Items

\* ------------------------------------------------------------- program constants

numShards == 64

ShardIds == 0 .. (numShards - 1)

\* ---------------------------------------------------------------- 32-bit helpers

\* The helpers below do their arithmetic in a local function, so that each
\* argument is evaluated once, to a number, before it is used.

\* bitwise exclusive or of two naturals
Xor(a, b) ==
    LET bits[m \in Nat, n \in Nat] ==
            IF m = 0 THEN n
            ELSE IF n = 0 THEN m
            ELSE (((m % 2) + (n % 2)) % 2) + 2 * bits[m \div 2, n \div 2]
    IN  bits[a, b]

\* FNV-1 order of the fold (multiply, then xor)
FnvRoundMulFirst(h, byte) ==
    LET round[v \in Seq(Nat), c \in Nat] ==
            LET hi1 == (v[1] * 403 + v[2] * 256 + ((v[2] * 403) \div 65536)) % 65536
                lo1 == (v[2] * 403) % 65536
            IN  <<hi1, (lo1 \div 256) * 256 + Xor(lo1 % 256, c)>>
    IN  round[h, byte]

\* one round of the FNV-1a fold on h = <<high 16 bits, low 16 bits>>:
\*   h ^= byte ; h *= 16777619   (16777619 = 256 * 65536 + 403, modulo 2^32)
FnvRound(h, byte) ==
    LET round[v \in Seq(Nat), c \in Nat] ==
            LET lo1 == (v[2] \div 256) * 256 + Xor(v[2] % 256, c)
                hi1 == v[1]
            IN  << (hi1 * 403 + lo1 * 256 + ((lo1 * 403) \div 65536)) % 65536,
                   (lo1 * 403) % 65536 >>
    IN  round[h, byte]

\* hash32(x) for 0 <= x < 2^31, as <<high 16 bits, low 16 bits>> of the uint32
\* (2166136261 = 33052 * 65536 + 40389)
hash32(x) ==
    LET fold[v \in Nat] ==
            LET b0 == v % 256
                b1 == (v \div 256) % 256
                b2 == (v \div 65536) % 256
                b3 == (v \div 16777216) % 256
            IN  FnvRound(FnvRound(FnvRound(FnvRound(<<33052, 40389>>, b0), b1), b2), b3)
    IN  fold[x]

\* uint32 % 100 of a value held as two 16-bit halves (65536 % 100 = 36)
Mod100(h) == (h[1] * 36 + h[2]) % 100

\* a sampling whose hash is seeded with the percentage
keepByPctSeeded(id, pct) ==
    IF pct >= 100 THEN TRUE
    ELSE IF pct <= 0 THEN FALSE
    ELSE Mod100(hash32((id + pct) % 2147483647)) < pct

keepByPct(id, pct) ==
    IF pct >= 100 THEN TRUE
    ELSE IF pct <= 0 THEN FALSE
    ELSE Mod100(hash32(id)) < pct

\* the hash of the pair as given, without putting the lower id first
shardIndexAsGiven(i, j) ==
    LET h == hash32(Xor(i * 73856093, j * 19349663))
    IN  h[2] % numShards

shardIndex(i, j) ==
    LET lo == IF i > j THEN j ELSE i
        hi == IF i > j THEN i ELSE j
        h  == hash32(Xor(lo * 73856093, hi * 19349663))
    IN  h[2] % numShards

\* shardIndex tabulated once for the identifiers of the model
ShardOf == [p \in Ids \X Ids |-> shardIndex(p[1], p[2])]


\* ------------------------------------------------------------------ inputs

\* rating (in half stars) stored in the file for the cell (u, i)
RatingOf(u, i) == 1 + ((u + i) % 2)

Triplets == {<<u, i, RatingOf(u, i)>> : u \in Users, i \in Items}

\* order of ratings_ui.csv: by uIdx, then by iIdx
TripletLess(s, t) == s[1] < t[1] \/ (s[1] = t[1] /\ s[2] < t[2])

RECURSIVE SortedFile(_)
SortedFile(S) ==
    IF S = {} THEN <<>>
    ELSE LET m == CHOOSE x \in S : \A y \in S \ {x} : TripletLess(x, y)
         IN  <<m>> \o SortedFile(S \ {m})

\* the triplet files drawn as input: sorted, without duplicate cells
Files == {SortedFile(S) : S \in {T \in SUBSET Triplets : Cardinality(T) <= MaxTriplets}}

\* sampling percentages drawn as input
PctChoices == {0, 50, 100}

\* values of --k, --min_co and --shrink drawn as input
KChoices == {1, 2}
MinCoChoices == {1, 2}
ShrinkChoices == {0, 1, 3}

\* ------------------------------------------------------------ maps and scores

EmptyMap == <<>>

Put(m, key, val) == [x \in (DOMAIN m) \cup {key} |-> IF x = key THEN val ELSE m[x]]

\* accumulator entry; fields a variant does not have stay 0
\*   c: co-occurrences (inter, c, n)   xy: dot / xy / sumXY
\*   x2, y2: n2a, n2b / x2, y2 / sumX2, sumY2      sx, sy: sumX, sumY
ZeroAcc == [c |-> 0, xy |-> 0, x2 |-> 0, y2 |-> 0, sx |-> 0, sy |-> 0]

\* a score is the real number num / sqrt(rad), rad > 0
SLess(s, t) ==
    IF s.num <= 0 /\ t.num > 0 THEN TRUE
    ELSE IF s.num < 0 /\ t.num = 0 THEN TRUE
    ELSE IF s.num >= 0 /\ t.num <= 0 THEN FALSE
    ELSE IF s.num > 0 THEN s.num * s.num * t.rad < t.num * t.num * s.rad
    ELSE s.num * s.num * t.rad > t.num * t.num * s.rad

SEq(s, t) == ~SLess(s, t) /\ ~SLess(t, s)

SPositive(s) == s.num > 0

\* s <= 1
SAtMostOne(s) == s.num <= 0 \/ s.num * s.num <= s.rad

RECURSIVE SortedOrders(_)
\* every order sort.Slice(list, s descending) can leave a list in, the list
\* having been filled in map iteration order: all arrangements with
\* non-increasing score
SortedOrders(S) ==
    IF S = {} THEN {<<>>}
    ELSE UNION {{<<x>> \o t : t \in SortedOrders(S \ {x})} :
                 x \in {y \in S : \A z \in S : ~SLess(y.s, z.s)}}

Prefix(list, k) == IF Len(list) > k THEN SubSeq(list, 1, k) ELSE list

\* topK(list, k): sort by score descending, keep the first k
topK(cands, k) == {Prefix(p, k) : p \in SortedOrders(cands)}


\* ------------------------------------------------------------------- state

VARIABLES
    variant,     \* which program runs
    file,        \* ratings_ui.csv: sequence of <<uIdx, iIdx, rating>>
    workers, pctUsers, pctItems, k, minCo, shrink,   \* flags
    phase,       \* position of the main goroutine
    aux,         \* per-node statistic of the first pass: itemCount / norms / cnt
    itemSum,     \* sequential Pearson: sum of the ratings of each item (itemStats.sum)
    rpos,        \* next record of the file to read
    lastU,       \* reader: user of the open basket, -1 before the first
    basket,      \* reader: buffer of the open basket, <<iIdx, rating>> each
    jobs,        \* the jobs channel (buffered)
    jobsClosed,  \* close(jobs) done
    emitted,     \* history: every basket sent on jobs, in order
    wpc,         \* per worker: off | recv | pair | crit | exited
    wjob,        \* per worker: basket being processed
    wa, wb,      \* per worker: loop indices a, b into wjob
    wreg,        \* per worker: entry read inside the critical section
    shards,      \* shard index -> (<<i, j>> -> entry); empty shards left out
    mu,          \* held shard mutexes: set of <<shard index, owner>>
    scanIdx,     \* PASO 3: next shard index to scan
    block,       \* local-map reader: baskets of the block being filled
    lo,          \* local-map user mode: first item of the next job
    itemUsers,   \* local-map user mode: item -> sequence of <<u, r'>>
    local,       \* per worker: its private accumulator map
    results,     \* the results channel (buffered): partial maps
    resultsClosed,  \* close(results) done
    nparts,      \* history: non-empty partial maps merged so far
    global,      \* merged accumulator: <<i, j>> -> entry
    out,         \* row -> neighbour list (sequence of [j, s])
    csv,         \* rows written to the neighbour CSV: <<a, b, score>>
    pairsUpdated,   \* the counter "pares actualizados" of the report
    wcnt,        \* per worker: value of pairsUpdated loaded by a plain pairsUpdated++
    csr,         \* byte lengths of indptr.bin, indices.bin, data.bin; Items of meta.json
    fault,       \* the file operation the system fails in this run, or "none"
    rawCsv,      \* remap: rows of the filtered ratings CSV, <<userId, movieId, rating>>
    badAt,       \* record of the file an unreadable line stands before, 0 for none
    userIdx,     \* remap: userId -> uIdx
    itemIdx,     \* remap: movieId -> iIdx
    buf,         \* remap: the triplets <<uIdx, iIdx, rating>> written to ratings_ui.csv
    heap,        \* backing arrays of the slices of the reader, by address 1, 2, ...
    itemsPtr,    \* address of the backing array of the slice `items`, 0 for nil
    queued,      \* slices sent by emitUser and not yet received: [ptr, len, sent]
    held,        \* slices received by a worker
    testRatio,   \* evaluator: the flag --test_ratio, a float64 <<kind, num, den>>
    test,        \* evaluator: the slice test, <<u, i, r>> each
    train,       \* evaluator: the map train, u -> (i -> r)
    visited,     \* evaluator: users the split loop has been through
    userCsr,     \* normalize: indptr, indices, data of matrix_user_csr (0-based arrays)
    itemCsr,     \* normalize: indptr, indices, data of matrix_item_csr (0-based arrays)
    probe        \* last call of keepByPct on its own: <<id, pct, result>>

statVars == <<aux, itemSum>>
cfgVars == <<variant, file, workers, pctUsers, pctItems, csr, fault, rawCsv, badAt>>
heapVars == <<heap, itemsPtr, queued, held>>
prepVars == <<userIdx, itemIdx, buf, userCsr, itemCsr, heapVars>>
evalVars == <<testRatio, test, train, visited>>
flagVars == <<k, minCo, shrink>>
readerVars == <<rpos, lastU, basket, jobs, jobsClosed, emitted>>
workerVars == <<wpc, wjob, wa, wb, wreg>>
shardVars == <<shards, mu, scanIdx>>
localVars == <<block, lo, itemUsers, local, results, resultsClosed, nparts>>
outVars == <<global, out, csv>>
countVars == <<pairsUpdated, wcnt>>

vars == <<cfgVars, flagVars, phase, statVars, readerVars, workerVars, shardVars, localVars, outVars, countVars, probe, prepVars, evalVars>>

WorkerIds == 1 .. MaxWorkers
MainOwner == 0

ShardedVariants == {"jaccard_shard", "cosine_shard"}

\* ------------------------------------------------------ sharded accumulator

ShardMap(idx) == IF idx \in DOMAIN shards THEN shards[idx] ELSE EmptyMap

Entry(m, key) == IF key \in DOMAIN m THEN m[key] ELSE ZeroAcc

\* sync.Mutex: Lock() returns only while nobody holds the mutex
LockFreeNoMutex(idx) == TRUE
LockFree(idx) == \A o \in WorkerIds \cup {MainOwner} : <<idx, o>> \notin mu

\* the ids put in canonical order while the values stay in basket order
CanonIdsOnly(ia, ib, ra, rb) ==
    IF ia > ib THEN [i |-> ib, j |-> ia, x |-> ra, y |-> rb]
    ELSE [i |-> ia, j |-> ib, x |-> ra, y |-> rb]

\* updatePair: canonical order of the pair, values swapped with the ids
Canon(ia, ib, ra, rb) ==
    IF ia > ib THEN [i |-> ib, j |-> ia, x |-> rb, y |-> ra]
    ELSE [i |-> ia, j |-> ib, x |-> ra, y |-> rb]

\* an update of the entry that leaves its count as it was
BumpKeepCount(t, cn) == [t EXCEPT !.xy = t.xy + cn.x * cn.y]

\* body of the critical section of updatePair on the entry t
\*   jaccard: t.inter++        cosine: t.dot += ra * rb ; t.c++
Bump(t, cn) ==
    IF variant = "jaccard_shard" THEN [t EXCEPT !.c = t.c + 1]
    ELSE [t EXCEPT !.c = t.c + 1, !.xy = t.xy + cn.x * cn.y]

\* the pair of loop indices after (a, b) in a basket of n items; <<0, 0>> at the end
NextPair(a, b, n) ==
    IF b < n THEN <<a, b + 1>>
    ELSE IF a + 2 <= n THEN <<a + 1, a + 2>>
    ELSE <<0, 0>>

\* next iteration of the pair loops; after the last pair the worker is back
\* at the receive and its loop variables are dead
WAdvance(w) ==
    LET nx == NextPair(wa[w], wb[w], Len(wjob[w]))
    IN  /\ wa' = [wa EXCEPT ![w] = nx[1]]
        /\ wb' = [wb EXCEPT ![w] = nx[2]]
        /\ wpc' = [wpc EXCEPT ![w] = IF nx = <<0, 0>> THEN "recv" ELSE "pair"]
        /\ wjob' = [wjob EXCEPT ![w] = IF nx = <<0, 0>> THEN <<>> ELSE wjob[w]]

WCanon(w) ==
    Canon(wjob[w][wa[w]][1], wjob[w][wb[w]][1], wjob[w][wa[w]][2], wjob[w][wb[w]][2])


\* ---------------------------------------------------- first pass (PASO 1)

\* filter of the counting pass: the triplet is counted iff both ids are kept
CountAdmitUserOnly(rec) == keepByPct(rec[1], pctUsers)
CountAdmit(rec) == keepByPct(rec[1], pctUsers) /\ keepByPct(rec[2], pctItems)

\* what one counted triplet adds: itemCount[i]++ / norms[i] += r * r
CountAdd(rec) == IF variant = "jaccard_shard" THEN 1 ELSE rec[3] * rec[3]

RECURSIVE FirstPass(_, _)
\* statistic of node i after the first n records
FirstPass(n, i) ==
    IF n = 0 THEN 0
    ELSE FirstPass(n - 1, i)
         + (IF file[n][2] = i /\ CountAdmit(file[n]) THEN CountAdd(file[n]) ELSE 0)

\* records the loop `rec, er := rd.Read(); if er != nil { break }` reads: it
\* stops at the first line the csv reader returns an error for, as at EOF
ReadLen == IF badAt = 0 THEN Len(file) ELSE badAt - 1

\* PASO 1, then the pool is started (go worker() x workers)
CountPass ==
    /\ phase = "init"
    /\ fault # "open"
    /\ variant \in ShardedVariants
    /\ aux' = [i \in Ids |-> FirstPass(ReadLen, i)]
    /\ UNCHANGED itemSum
    /\ wpc' = [w \in WorkerIds |-> IF w <= workers THEN "recv" ELSE "off"]
    /\ phase' = "reading"
    /\ UNCHANGED <<countVars, cfgVars, probe, prepVars, evalVars, flagVars, readerVars, wjob, wa, wb, wreg, shardVars, outVars, localVars>>

\* ------------------------------------------------------- reader (PASO 2)

\* one iteration of the read loop on record <<u, i, r>>:
\* new lastU, new buffer, and the basket emitUser sent (<<>>: nothing sent)
Reject(lu, bk, u) ==
    IF lu # -1 /\ u # lu THEN [lastU |-> u, basket |-> <<>>, send |-> bk]
    ELSE [lastU |-> lu, basket |-> bk, send |-> <<>>]

\* a user switch that changes lastU and keeps the buffer
SwitchKeepBuffer(lu, bk, u) ==
    IF lu = -1 THEN [lastU |-> u, basket |-> bk, send |-> <<>>]
    ELSE [lastU |-> u, basket |-> bk, send |-> <<>>]

\* user switch of an admitted row: if lastU == -1 {..} else if u != lastU {emitUser(); lastU = u}
Switch(lu, bk, u) ==
    IF lu = -1 THEN [lastU |-> u, basket |-> bk, send |-> <<>>]
    ELSE IF u # lu THEN [lastU |-> u, basket |-> <<>>, send |-> bk]
    ELSE [lastU |-> lu, basket |-> bk, send |-> <<>>]

\* jaccard reader: a row is rejected on the user or on the item at once
RecStepJaccard(lu, bk, rec) ==
    IF ~keepByPct(rec[1], pctUsers) \/ ~keepByPct(rec[2], pctItems)
    THEN Reject(lu, bk, rec[1])
    ELSE LET sw == Switch(lu, bk, rec[1])
         IN  [sw EXCEPT !.basket = Append(sw.basket, <<rec[2], 1>>)]

\* cosine reader: user filter, user switch, then item filter
RecStepCosine(lu, bk, rec) ==
    IF ~keepByPct(rec[1], pctUsers) THEN Reject(lu, bk, rec[1])
    ELSE LET sw == Switch(lu, bk, rec[1])
         IN  IF ~keepByPct(rec[2], pctItems) THEN sw
             ELSE [sw EXCEPT !.basket = Append(sw.basket, <<rec[2], rec[3]>>)]

RecStep(lu, bk, rec) ==
    IF variant = "jaccard_shard" THEN RecStepJaccard(lu, bk, rec)
    ELSE RecStepCosine(lu, bk, rec)

\* capacity of the jobs channel: make(chan ..., workers*4)
JobsCap == workers * 4

\* emitUser without its test `if len(items) == 0 { return }`
SendEmptyToo(bk) ==
    /\ Len(jobs) < JobsCap
    /\ jobs' = Append(jobs, bk)
    /\ emitted' = Append(emitted, bk)

\* emitUser: nothing is sent for a user without items;
\* jobs <- cp blocks while the buffer is full
Send(bk) ==
    IF bk = <<>> THEN UNCHANGED <<jobs, emitted>>
    ELSE /\ Len(jobs) < JobsCap
         /\ jobs' = Append(jobs, bk)
         /\ emitted' = Append(emitted, bk)

\* one iteration of the read loop
ReadRec ==
    /\ phase = "reading"
    /\ variant \in ShardedVariants
    /\ rpos <= ReadLen
    /\ LET st == RecStep(lastU, basket, file[rpos])
       IN  /\ Send(st.send)
           /\ lastU' = st.lastU
           /\ basket' = st.basket
    /\ rpos' = rpos + 1
    /\ UNCHANGED <<countVars, cfgVars, probe, prepVars, evalVars, flagVars, phase, statVars, jobsClosed, workerVars, shardVars, outVars, localVars>>

\* end of file: emitUser() for the last user
ReadEOF ==
    /\ phase = "reading"
    /\ variant \in ShardedVariants
    /\ rpos = ReadLen + 1
    /\ Send(basket)
    /\ basket' = <<>>
    /\ phase' = "closing"
    /\ UNCHANGED <<countVars, cfgVars, probe, prepVars, evalVars, flagVars, statVars, rpos, lastU, jobsClosed, workerVars, shardVars, outVars, localVars>>

\* close(jobs)
CloseJobs ==
    /\ phase = "closing"
    /\ variant \in ShardedVariants
    /\ jobsClosed' = TRUE
    /\ phase' = "joining"
    /\ UNCHANGED <<countVars, cfgVars, probe, prepVars, evalVars, flagVars, statVars, rpos, lastU, basket, jobs, emitted, workerVars, shardVars, outVars, localVars>>

\* ------------------------------------------------------ workers (PASO 2)

\* for basket := range jobs : receive the next basket
WRecv(w) ==
    /\ variant \in ShardedVariants
    /\ wpc[w] = "recv"
    /\ jobs # <<>>
    /\ jobs' = Tail(jobs)
    /\ IF Len(Head(jobs)) >= 2
       THEN /\ wjob' = [wjob EXCEPT ![w] = Head(jobs)]
            /\ wpc' = [wpc EXCEPT ![w] = "pair"]
            /\ wa' = [wa EXCEPT ![w] = 1]
            /\ wb' = [wb EXCEPT ![w] = 2]
       ELSE UNCHANGED <<wpc, wjob, wa, wb>>
    /\ UNCHANGED <<countVars, cfgVars, probe, prepVars, evalVars, flagVars, phase, statVars, rpos, lastU, basket, jobsClosed, emitted, wreg, shardVars, outVars, localVars>>

\* range over a closed and drained channel ends; defer wg.Done()
WExit(w) ==
    /\ variant \in ShardedVariants
    /\ wpc[w] = "recv"
    /\ jobs = <<>>
    /\ jobsClosed
    /\ wpc' = [wpc EXCEPT ![w] = "exited"]
    /\ UNCHANGED <<countVars, cfgVars, probe, prepVars, evalVars, flagVars, phase, statVars, readerVars, wjob, wa, wb, wreg, shardVars, outVars, localVars>>

\* the worker's count of one pair update, after updatePair has returned:
\*   jaccard_concurrent.go   atomic.AddUint64(&pairsUpdated, 1)
\*   part_002                pairsUpdated++ on a variable shared by the pool,
\*                           a plain load here and a plain store in WCount
AtomicCounter == variant = "jaccard_shard"

CountPair(w) ==
    IF AtomicCounter
    THEN /\ pairsUpdated' = pairsUpdated + 1
         /\ WAdvance(w)
         /\ UNCHANGED wcnt
    ELSE /\ wcnt' = [wcnt EXCEPT ![w] = pairsUpdated]
         /\ wpc' = [wpc EXCEPT ![w] = "count"]
         /\ UNCHANGED <<pairsUpdated, wa, wb, wjob>>

\* updatePair up to the read of the entry: s.mu.Lock(); the entry is created
\* with zero fields when the map has none (t = &acc{}; m[ib] = t); t is read
WEnter(w) ==
    /\ variant \in ShardedVariants
    /\ wpc[w] = "pair"
    /\ LET cn == WCanon(w)
           idx == ShardOf[<<cn.i, cn.j>>]
       IN  IF cn.i = cn.j
           THEN CountPair(w) /\ UNCHANGED <<wreg, mu, shards>>
           ELSE /\ LockFree(idx)
                /\ mu' = mu \cup {<<idx, w>>}
                /\ shards' = Put(shards, idx, Put(ShardMap(idx), <<cn.i, cn.j>>,
                                                  Entry(ShardMap(idx), <<cn.i, cn.j>>)))
                /\ wreg' = [wreg EXCEPT ![w] = Entry(ShardMap(idx), <<cn.i, cn.j>>)]
                /\ wpc' = [wpc EXCEPT ![w] = "crit"]
                /\ UNCHANGED <<wa, wb, wjob, countVars>>
    /\ UNCHANGED <<cfgVars, probe, prepVars, evalVars, flagVars, phase, statVars, readerVars, scanIdx, outVars, localVars>>

\* rest of updatePair: store the updated entry, s.mu.Unlock(); next pair
WLeave(w) ==
    /\ variant \in ShardedVariants
    /\ wpc[w] = "crit"
    /\ LET cn == WCanon(w)
           idx == ShardOf[<<cn.i, cn.j>>]
       IN  /\ shards' = Put(shards, idx, Put(ShardMap(idx), <<cn.i, cn.j>>, Bump(wreg[w], cn)))
           /\ mu' = mu \ {<<idx, w>>}
    /\ wreg' = [wreg EXCEPT ![w] = ZeroAcc]
    /\ CountPair(w)
    /\ UNCHANGED <<cfgVars, probe, prepVars, evalVars, flagVars, phase, statVars, readerVars, scanIdx, outVars, localVars>>

\* second half of the plain pairsUpdated++ : the loaded value plus one is stored
WCount(w) ==
    /\ variant \in ShardedVariants
    /\ wpc[w] = "count"
    /\ pairsUpdated' = wcnt[w] + 1
    /\ wcnt' = [wcnt EXCEPT ![w] = 0]
    /\ WAdvance(w)
    /\ UNCHANGED <<cfgVars, probe, prepVars, evalVars, flagVars, phase, statVars, readerVars, wreg, shardVars, outVars, localVars>>

\* wg.Wait() returns once every worker has called wg.Done()
PoolDoneNoWait == TRUE
PoolDone == \A w \in WorkerIds : wpc[w] \in {"off", "exited"}

\* wg.Wait(); the flags are first used after it
Join ==
    /\ phase = "joining"
    /\ variant \in ShardedVariants
    /\ PoolDone
    /\ k' \in KChoices
    /\ minCo' \in MinCoChoices
    /\ shrink' \in ShrinkChoices
    /\ phase' = "finalising"
    /\ UNCHANGED <<countVars, cfgVars, probe, prepVars, evalVars, statVars, readerVars, workerVars, shardVars, outVars, localVars>>


\* ------------------------------------------------- scoring of one entry

\* shrinkage: sim * c / (c + shrink) when shrink > 0
ShrinkGrow(sc, c) ==
    IF shrink > 0
    THEN [num |-> sc.num * (c + shrink), rad |-> sc.rad * c * c]
    ELSE sc
ShrunkNoOp(sc, c) == sc
Shrunk(sc, c) ==
    IF shrink > 0
    THEN [num |-> sc.num * c, rad |-> sc.rad * (c + shrink) * (c + shrink)]
    ELSE sc

\* support threshold: the entry is dropped when its count is below min_co
SupportOff(t) == TRUE
Support(t) == ~(t.c < minCo)

\* jaccard of an entry given the two degrees: inter / (countI + countJ - inter)
JaccardUnion(t, ci, cj) == ci + cj - t.c
JaccardRaw(t, ci, cj) ==
    [num |-> t.c, rad |-> JaccardUnion(t, ci, cj) * JaccardUnion(t, ci, cj)]

\* candidates of row i in the map m (PASO 3 of the sharded jaccard run)
JaccardCands(m, i) ==
    {[j |-> key[2], s |-> Shrunk(JaccardRaw(m[key], aux[i], aux[key[2]]), m[key].c)] :
        key \in {kk \in DOMAIN m :
                    /\ kk[1] = i
                    /\ Support(m[kk])
                    /\ aux[kk[2]] # 0
                    /\ JaccardUnion(m[kk], aux[i], aux[kk[2]]) > 0
                    /\ SPositive(JaccardRaw(m[kk], aux[i], aux[kk[2]]))}}

\* cosine with the norms of the first pass: dot / (sqrt(norms[i]) * sqrt(norms[j]))
CosineNormRaw(t, ni, nj) == [num |-> t.xy, rad |-> ni * nj]

\* candidates of row i in the merged map (top-K of the sharded cosine run)
CosineNormCands(m, i) ==
    {[j |-> key[2], s |-> Shrunk(CosineNormRaw(m[key], aux[i], aux[key[2]]), m[key].c)] :
        key \in {kk \in DOMAIN m :
                    /\ kk[1] = i
                    /\ Support(m[kk])
                    /\ aux[kk[2]] # 0
                    /\ SPositive(CosineNormRaw(m[kk], aux[i], aux[kk[2]]))}}

RowsOf(m) == {key[1] : key \in DOMAIN m}

\* every assignment o of neighbour lists that differs from out only on the
\* rows in the domain of Ls, where it holds one of the lists Ls[i]
Assignments(Ls) ==
    {o \in [Ids -> UNION ({Ls[i] : i \in DOMAIN Ls} \cup {{out[i] : i \in Ids}})] :
        \A i \in Ids : IF i \in DOMAIN Ls THEN o[i] \in Ls[i] ELSE o[i] = out[i]}

\* ------------------------------------------ finalisation of the sharded runs

\* for _, s := range shards : the shard the loop turns to next.  Shards
\* without entries are passed over; numShards when none is left.
NextShard ==
    LET left == {x \in DOMAIN shards : x >= scanIdx}
    IN  IF left = {} THEN numShards ELSE CHOOSE x \in left : \A y \in left : x <= y

\* shard mutexes held by the main goroutine
MainHolds == {idx \in ShardIds : <<idx, MainOwner>> \in mu}

\* s.mu.Lock() at the top of the loop body
LockShard ==
    /\ phase = "finalising"
    /\ variant \in ShardedVariants
    /\ MainHolds = {}
    /\ NextShard < numShards
    /\ LockFree(NextShard)
    /\ mu' = mu \cup {<<NextShard, MainOwner>>}
    /\ UNCHANGED <<countVars, cfgVars, probe, prepVars, evalVars, flagVars, phase, statVars, readerVars, workerVars,
                   shards, scanIdx, outVars, localVars>>

\* PASO 3, one shard under its lock: every row i of the shard whose candidate
\* list is not empty gets out[i] = topK(cands, k); then s.mu.Unlock()
ScanShard ==
    /\ phase = "finalising"
    /\ variant = "jaccard_shard"
    /\ IF NextShard = numShards
       THEN /\ MainHolds = {}
            /\ phase' = "writing"
            /\ scanIdx' = numShards
            /\ UNCHANGED <<out, mu>>
       ELSE LET m == shards[NextShard]
                R == {i \in RowsOf(m) : aux[i] # 0 /\ JaccardCands(m, i) # {}}
            IN  /\ <<NextShard, MainOwner>> \in mu
                /\ out' \in Assignments([i \in R |-> topK(JaccardCands(m, i), k)])
                /\ mu' = mu \ {<<NextShard, MainOwner>>}
                /\ scanIdx' = NextShard + 1
                /\ UNCHANGED phase
    /\ UNCHANGED <<countVars, cfgVars, probe, prepVars, evalVars, flagVars, statVars, readerVars, workerVars, shards,
                   global, csv, localVars>>

RECURSIVE MergeMaps(_, _)
\* fold of the shard maps into g, shard by shard in index order
MergeMaps(g, left) ==
    IF left = {} THEN g
    ELSE LET sidx == CHOOSE x \in left : \A y \in left : x <= y
             m == shards[sidx]
             g1 == [key \in (DOMAIN g) \cup (DOMAIN m) |->
                      IF key \notin DOMAIN m THEN g[key]
                      ELSE IF key \notin DOMAIN g THEN m[key]
                      ELSE [g[key] EXCEPT !.c = g[key].c + m[key].c,
                                          !.xy = g[key].xy + m[key].xy]]
         IN  MergeMaps(g1, left \ {sidx})

\* "Fusionar shards", one shard under its lock: its entries are added into
\* global; then s.mu.Unlock()
MergeShards ==
    /\ phase = "finalising"
    /\ variant = "cosine_shard"
    /\ IF NextShard = numShards
       THEN /\ MainHolds = {}
            /\ phase' = "topk"
            /\ scanIdx' = numShards
            /\ UNCHANGED <<global, mu>>
       ELSE /\ <<NextShard, MainOwner>> \in mu
            /\ global' = MergeMaps(global, {NextShard})
            /\ mu' = mu \ {<<NextShard, MainOwner>>}
            /\ scanIdx' = NextShard + 1
            /\ UNCHANGED phase
    /\ UNCHANGED <<countVars, cfgVars, probe, prepVars, evalVars, flagVars, statVars, readerVars, workerVars, shards,
                   out, csv, localVars>>

\* Top-K of the sharded cosine run: rows with a zero norm are passed over,
\* every other row of global gets out[i] = topK(cands, k)
TopKCosineNorm ==
    /\ phase = "topk"
    /\ variant = "cosine_shard"
    /\ LET R == {i \in RowsOf(global) : aux[i] # 0}
       IN  out' \in Assignments([i \in R |-> topK(CosineNormCands(global, i), k)])
    /\ phase' = "writing"
    /\ UNCHANGED <<countVars, cfgVars, probe, prepVars, evalVars, flagVars, statVars, readerVars, workerVars, shardVars, global, csv, localVars>>

\* ------------------------------------------------ worker-local-map runs

ItemLocalVariants == {"cosine_item_conc", "pearson_item_conc"}
UserLocalVariants == {"cosine_user_conc", "pearson_user_conc"}
LocalVariants == ItemLocalVariants \cup UserLocalVariants

\* one pair update on the entry t with the values x of the first and y of the
\* second node:  cosine  dot += x*y; n2a += x*x; n2b += y*y; c++
\*               pearson item-based  sumX, sumY, sumX2, sumY2, sumXY, n++
AccBump(t, x, y) ==
    IF variant = "pearson_item_conc"
    THEN [c |-> t.c + 1, xy |-> t.xy + x * y, x2 |-> t.x2 + x * x,
          y2 |-> t.y2 + y * y, sx |-> t.sx + x, sy |-> t.sy + y]
    ELSE [t EXCEPT !.c = t.c + 1, !.xy = t.xy + x * y,
                   !.x2 = t.x2 + x * x, !.y2 = t.y2 + y * y]

RECURSIVE FlushFrom(_, _, _, _)
\* the double loop over the pairs (a, b), a < b, of one basket, from (a, b) on;
\* the key is the pair of ids in basket order
FlushFrom(m, bk, a, b) ==
    IF a = 0 THEN m
    ELSE LET key == <<bk[a][1], bk[b][1]>>
             nx == NextPair(a, b, Len(bk))
         IN  FlushFrom(Put(m, key, AccBump(Entry(m, key), bk[a][2], bk[b][2])),
                       bk, nx[1], nx[2])

\* accumulation of one basket into the map m
Flush(m, bk) == IF Len(bk) < 2 THEN m ELSE FlushFrom(m, bk, 1, 2)

RECURSIVE FlushAll(_, _)
\* accumulation of a sequence of baskets, one after the other
FlushAll(m, bks) ==
    IF bks = <<>> THEN m ELSE FlushAll(Flush(m, Head(bks)), Tail(bks))

\* reduce: one partial map added into the global map, field by field
MergeOverwrite(g, m) ==
    [key \in (DOMAIN g) \cup (DOMAIN m) |-> IF key \in DOMAIN m THEN m[key] ELSE g[key]]
MergePart(g, m) ==
    [key \in (DOMAIN g) \cup (DOMAIN m) |->
        IF key \notin DOMAIN m THEN g[key]
        ELSE IF key \notin DOMAIN g THEN m[key]
        ELSE [c |-> g[key].c + m[key].c, xy |-> g[key].xy + m[key].xy,
              x2 |-> g[key].x2 + m[key].x2, y2 |-> g[key].y2 + m[key].y2,
              sx |-> g[key].sx + m[key].sx, sy |-> g[key].sy + m[key].sy]]

\* go worker() x workers
StartNoWorkers == wpc' = [w \in WorkerIds |-> "off"]
StartWorkers == wpc' = [w \in WorkerIds |-> IF w <= workers THEN "recv" ELSE "off"]

\* item mode: channels made, pool started, the read loop begins
LocalStart ==
    /\ phase = "init"
    /\ fault # "open"
    /\ variant \in ItemLocalVariants
    /\ StartWorkers
    /\ phase' = "reading"
    /\ UNCHANGED <<countVars, cfgVars, probe, prepVars, evalVars, flagVars, statVars, readerVars, wjob, wa, wb, wreg, shardVars, localVars, outVars>>

\* emitUser of the item-mode readers: the basket joins the block, a full block
\* is sent on jobs (the send blocks while the buffer holds `workers` blocks)
LocalEmit(bk) ==
    IF bk = <<>> THEN UNCHANGED <<block, jobs, emitted>>
    ELSE /\ emitted' = Append(emitted, bk)
         /\ IF Len(block) + 1 >= usersPerBlock
            THEN /\ Len(jobs) < workers
                 /\ jobs' = Append(jobs, Append(block, bk))
                 /\ block' = <<>>
            ELSE /\ block' = Append(block, bk)
                 /\ UNCHANGED jobs

\* one iteration of the item-mode read loop
LocalReadRec ==
    /\ phase = "reading"
    /\ variant \in ItemLocalVariants
    /\ rpos <= Len(file)
    /\ LET st == RecStepCosine(lastU, basket, file[rpos])
       IN  /\ LocalEmit(st.send)
           /\ lastU' = st.lastU
           /\ basket' = st.basket
    /\ rpos' = rpos + 1
    /\ UNCHANGED <<countVars, cfgVars, probe, prepVars, evalVars, flagVars, phase, statVars, jobsClosed, workerVars, shardVars,
                   lo, itemUsers, local, results, resultsClosed, nparts, outVars>>

\* end of file: emitUser() for the last user
LocalReadEOF ==
    /\ phase = "reading"
    /\ variant \in ItemLocalVariants
    /\ rpos = Len(file) + 1
    /\ LocalEmit(basket)
    /\ basket' = <<>>
    /\ phase' = "flushing"
    /\ UNCHANGED <<countVars, cfgVars, probe, prepVars, evalVars, flagVars, statVars, rpos, lastU, jobsClosed, workerVars, shardVars,
                   lo, itemUsers, local, results, resultsClosed, nparts, outVars>>

\* the end of the read loop without the send of the block that is not full
LocalFlushBlockDrop ==
    /\ phase = "flushing"
    /\ phase' = "closing"
    /\ UNCHANGED <<countVars, cfgVars, probe, prepVars, evalVars, flagVars, statVars, rpos, lastU, basket, jobsClosed, emitted,
                   workerVars, shardVars, localVars, outVars, jobs>>

\* if len(block.users) > 0 { jobs <- block }
LocalFlushBlock ==
    /\ phase = "flushing"
    /\ IF block = <<>> THEN UNCHANGED jobs
       ELSE /\ Len(jobs) < workers
            /\ jobs' = Append(jobs, block)
    /\ phase' = "closing"
    /\ UNCHANGED <<countVars, cfgVars, probe, prepVars, evalVars, flagVars, statVars, rpos, lastU, basket, jobsClosed, emitted,
                   workerVars, shardVars, localVars, outVars>>

\* ---- user mode: CSR input and inverted index

\* rows of the user CSR: the file's triplets grouped by user; data holds the
\* rating centred on the user's mean, r - mean_u.  The model keeps the
\* integer n_u * (r - mean_u) = n_u * r - sum_u, n_u the ratings of u.
RowOf(u) == {n \in 1 .. Len(file) : file[n][1] = u}

RECURSIVE SumRatings(_)
SumRatings(S) ==
    IF S = {} THEN 0
    ELSE LET n == CHOOSE x \in S : TRUE IN file[n][3] + SumRatings(S \ {n})

\* readInt64 / readInt32 / readFloat32: n := len(b) / width elements are
\* decoded, the bytes after the last whole element are dropped
ReadBin(bytes, width) == bytes \div width

\* the blobs normalize.go writes for the file: indptr has U + 1 int64, indices
\* and data one element per triplet; meta.json declares the number of items
WellFormedCsr ==
    [indptr |-> 8 * (1 + (IF file = <<>> THEN 0 ELSE 1 + file[Len(file)][1])),
     indices |-> 4 * Len(file),
     data |-> 4 * Len(file),
     items |-> Cardinality(Items)]

CsrDataRaw(n) == file[n][3]
CsrData(n) == Cardinality(RowOf(file[n][1])) * file[n][3] - SumRatings(RowOf(file[n][1]))

\* maxI: largest item index of the CSR plus one
MaxI == IF file = <<>> THEN 0
        ELSE 1 + (CHOOSE i \in Items :
                     /\ \E n \in 1 .. Len(file) : file[n][2] = i
                     /\ \A n \in 1 .. Len(file) : file[n][2] <= i)

RECURSIVE InvertAllItems(_, _)
\* the inversion with the user filter alone
InvertAllItems(n, i) ==
    IF n = 0 THEN <<>>
    ELSE IF file[n][2] = i /\ keepByPct(file[n][1], pctUsers)
         THEN Append(InvertAllItems(n - 1, i), <<file[n][1], CsrData(n)>>)
         ELSE InvertAllItems(n - 1, i)

RECURSIVE InvertUpTo(_, _)
\* itemUsers[i] after the rows of the first n records: the sampled
\* <<u, r'>> of item i in ascending user order
InvertUpTo(n, i) ==
    IF n = 0 THEN <<>>
    ELSE IF /\ file[n][2] = i
            /\ file[n][1] < ReadBin(csr.indptr, 8) - 1
            /\ keepByPct(file[n][1], pctUsers)
            /\ keepByPct(i, pctItems)
         THEN Append(InvertUpTo(n - 1, i), <<file[n][1], CsrData(n)>>)
         ELSE InvertUpTo(n - 1, i)

RECURSIVE NonEmptyLists(_)
\* the non-empty lists itemUsers[i], i < n, in item order
NonEmptyLists(n) ==
    IF n = 0 THEN <<>>
    ELSE IF InvertUpTo(Len(file), n - 1) = <<>> THEN NonEmptyLists(n - 1)
         ELSE Append(NonEmptyLists(n - 1), InvertUpTo(Len(file), n - 1))

\* user mode: CSR loaded, inverted index built, channels made, pool started
Invert ==
    /\ phase = "init"
    /\ fault # "open"
    /\ variant \in UserLocalVariants
    /\ itemUsers' = [i \in Items |-> InvertUpTo(Len(file), i)]
    /\ emitted' = NonEmptyLists(MaxI)
    /\ StartWorkers
    /\ phase' = "enqueue"
    /\ UNCHANGED <<countVars, cfgVars, probe, prepVars, evalVars, flagVars, statVars, rpos, lastU, basket, jobs, jobsClosed,
                   wjob, wa, wb, wreg, shardVars, block, lo, local, results,
                   resultsClosed, nparts, outVars>>

\* for lo := 0; lo < maxI; lo += chunk { jobs <- job{lo, hi} }
Enqueue ==
    /\ phase = "enqueue"
    /\ IF lo < MaxI
       THEN /\ Len(jobs) < workers
            /\ jobs' = Append(jobs, <<lo, IF lo + chunk > MaxI THEN MaxI ELSE lo + chunk>>)
            /\ lo' = lo + chunk
            /\ UNCHANGED phase
       ELSE /\ phase' = "closing"
            /\ UNCHANGED <<jobs, lo>>
    /\ UNCHANGED <<countVars, cfgVars, probe, prepVars, evalVars, flagVars, statVars, rpos, lastU, basket, jobsClosed, emitted,
                   workerVars, shardVars, block, itemUsers, local, results,
                   resultsClosed, nparts, outVars>>

\* close(jobs); the goroutine that closes results after wg.Wait() is started
LocalCloseJobs ==
    /\ phase = "closing"
    /\ variant \in LocalVariants
    /\ jobsClosed' = TRUE
    /\ phase' = "reducing"
    /\ UNCHANGED <<countVars, cfgVars, probe, prepVars, evalVars, flagVars, statVars, rpos, lastU, basket, jobs, emitted,
                   workerVars, shardVars, localVars, outVars>>

\* ---- workers

\* the baskets of one job: the users of a block / the user lists of items lo..hi-1
RECURSIVE ItemLists(_, _)
ItemLists(from, to) ==
    IF from >= to THEN <<>>
    ELSE <<itemUsers[from]>> \o ItemLists(from + 1, to)

JobBaskets(jb) ==
    IF variant \in ItemLocalVariants THEN jb ELSE ItemLists(jb[1], jb[2])

\* for blk := range jobs { ... }: one job received and accumulated into the
\* worker's own map
LocalRecv(w) ==
    /\ variant \in LocalVariants
    /\ wpc[w] = "recv"
    /\ jobs # <<>>
    /\ jobs' = Tail(jobs)
    /\ local' = [local EXCEPT ![w] = FlushAll(local[w], JobBaskets(Head(jobs)))]
    /\ UNCHANGED <<countVars, cfgVars, probe, prepVars, evalVars, flagVars, phase, statVars, rpos, lastU, basket, jobsClosed, emitted,
                   workerVars, shardVars, block, lo, itemUsers, results, resultsClosed,
                   nparts, outVars>>

\* jobs closed and drained: results <- part{m: local}, then wg.Done()
LocalSendPart(w) ==
    /\ variant \in LocalVariants
    /\ wpc[w] = "recv"
    /\ jobs = <<>>
    /\ jobsClosed
    /\ Len(results) < workers
    /\ results' = Append(results, local[w])
    /\ local' = [local EXCEPT ![w] = EmptyMap]
    /\ wpc' = [wpc EXCEPT ![w] = "exited"]
    /\ UNCHANGED <<countVars, cfgVars, probe, prepVars, evalVars, flagVars, phase, statVars, readerVars, wjob, wa, wb, wreg,
                   shardVars, block, lo, itemUsers, resultsClosed, nparts, outVars>>

\* go func() { wg.Wait(); close(results) }()
CloseResults ==
    /\ phase = "reducing"
    /\ ~resultsClosed
    /\ PoolDone
    /\ resultsClosed' = TRUE
    /\ UNCHANGED <<countVars, cfgVars, probe, prepVars, evalVars, flagVars, phase, statVars, readerVars, workerVars, shardVars,
                   block, lo, itemUsers, local, results, nparts, outVars>>

\* ---- reduce

\* for part := range results { merge part.m into global; pairsUpdated++ per entry }
Reduce ==
    /\ phase = "reducing"
    /\ results # <<>>
    /\ results' = Tail(results)
    /\ global' = MergePart(global, Head(results))
    /\ nparts' = nparts + (IF Head(results) = EmptyMap THEN 0 ELSE 1)
    /\ pairsUpdated' = pairsUpdated + Cardinality(DOMAIN Head(results))
    /\ UNCHANGED <<wcnt, cfgVars, probe, prepVars, evalVars, flagVars, phase, statVars, readerVars, workerVars, shardVars,
                   block, lo, itemUsers, local, resultsClosed, out, csv>>

\* range over the closed and drained results ends; the flags are first used after it
ReduceDone ==
    /\ phase = "reducing"
    /\ results = <<>>
    /\ resultsClosed
    /\ k' \in KChoices
    /\ minCo' \in MinCoChoices
    /\ shrink' = 0
    /\ phase' = "topk"
    /\ UNCHANGED <<countVars, cfgVars, probe, prepVars, evalVars, statVars, readerVars, workerVars, shardVars, localVars, outVars>>

\* ---- top-K

\* cosine: dot / (sqrt(n2a) * sqrt(n2b)), entries with a zero norm dropped
CosineRaw(t) == [num |-> t.xy, rad |-> t.x2 * t.y2]

\* pearson item-based from the raw sums, both numerator and the two
\* variances multiplied by n
PearsonNum(t) == t.c * t.xy - t.sx * t.sy
PearsonDenX(t) == t.c * t.x2 - t.sx * t.sx
PearsonDenY(t) == t.c * t.y2 - t.sy * t.sy
PearsonRaw(t) == [num |-> PearsonNum(t), rad |-> PearsonDenX(t) * PearsonDenY(t)]

LocalKeep(t) ==
    IF variant = "pearson_item_conc"
    THEN Support(t) /\ ~(PearsonDenX(t) <= 0 \/ PearsonDenY(t) <= 0)
    ELSE Support(t) /\ ~(t.x2 = 0 \/ t.y2 = 0)

LocalScore(t) == IF variant = "pearson_item_conc" THEN PearsonRaw(t) ELSE CosineRaw(t)

\* candidates of row i in the global map
LocalCands(m, i) ==
    {[j |-> key[2], s |-> LocalScore(m[key])] :
        key \in {kk \in DOMAIN m : kk[1] = i /\ LocalKeep(m[kk])}}

\* for i, m := range global { ...; out[i] = topK(cands, k) }
LocalTopK ==
    /\ phase = "topk"
    /\ variant \in LocalVariants
    /\ out' \in Assignments([i \in RowsOf(global) |-> topK(LocalCands(global, i), k)])
    /\ phase' = "writing"
    /\ UNCHANGED <<countVars, cfgVars, probe, prepVars, evalVars, flagVars, statVars, readerVars, workerVars, shardVars, localVars,
                   global, csv>>

\* ---------------------------------- legacy user-based Pearson (sequential)

Remove(q, n) == SubSeq(q, 1, n - 1) \o SubSeq(q, n + 1, Len(q))

RECURSIVE SortedSeqs(_)
\* every order sort.Slice(q, s descending) can leave the slice q in
SortedSeqs(q) ==
    IF q = <<>> THEN {<<>>}
    ELSE UNION {{<<q[n]>> \o t : t \in SortedSeqs(Remove(q, n))} :
                 n \in {m \in 1 .. Len(q) : \A z \in 1 .. Len(q) : ~SLess(q[m].s, q[z].s)}}

RECURSIVE SetToSeq(_)
SetToSeq(S) ==
    IF S = {} THEN <<>>
    ELSE LET x == CHOOSE y \in S : TRUE IN <<x>> \o SetToSeq(S \ {x})

\* topMerge(curr, add, k): append, sort by score descending, keep the first k
topMerge(curr, add, kk) == {Prefix(p, kk) : p \in SortedSeqs(curr \o SetToSeq(add))}

RECURSIVE TmpFrom(_, _, _, _)
\* tmp after the inner loop b = from .. n for the user at position a of users
TmpFrom(m, users, a, from) ==
    IF from > Len(users) THEN m
    ELSE LET ub == users[from][1]
             t == Entry(m, ub)
             t1 == [t EXCEPT !.xy = t.xy + users[a][2] * users[from][2],
                             !.x2 = t.x2 + users[a][2] * users[a][2],
                             !.y2 = t.y2 + users[from][2] * users[from][2],
                             !.c = t.c + 1]
         IN  TmpFrom(Put(m, ub, t1), users, a, from + 1)

\* candidates of ua out of its tmp map
LegacyCands(tmp) ==
    {[j |-> v, s |-> CosineRaw(tmp[v])] :
        v \in {x \in DOMAIN tmp : Support(tmp[x]) /\ ~(tmp[x].x2 = 0 \/ tmp[x].y2 = 0)}}

\* flags parsed, CSR loaded, inverted index built (no sampling in this program)
LegacyLoad ==
    /\ phase = "init"
    /\ fault # "open"
    /\ variant = "pearson_user_legacy"
    /\ k' \in KChoices
    /\ minCo' \in MinCoChoices
    /\ itemUsers' = [i \in Items |-> InvertUpTo(Len(file), i)]
    /\ emitted' = NonEmptyLists(MaxI)
    /\ lo' = 0
    /\ rpos' = 1
    /\ phase' = "accumulating"
    /\ UNCHANGED <<countVars, cfgVars, probe, prepVars, evalVars, shrink, statVars, lastU, basket, jobs, jobsClosed,
                   workerVars, shardVars, block, local, results, resultsClosed,
                   nparts, outVars>>

\* one iteration of the loop over a for the item i = lo, a = rpos:
\* tmp filled for ua, converted to candidates, merged into out[ua]
LegacyStep ==
    /\ phase = "accumulating"
    /\ IF lo >= MaxI
       THEN /\ phase' = "writing"
            /\ UNCHANGED <<lo, rpos, out>>
       ELSE IF rpos > Len(itemUsers[lo])
       THEN /\ lo' = lo + 1
            /\ rpos' = 1
            /\ UNCHANGED <<phase, out>>
       ELSE LET users == itemUsers[lo]
                ua == users[rpos][1]
                cands == LegacyCands(TmpFrom(EmptyMap, users, rpos, rpos + 1))
            IN  /\ IF cands = {} THEN UNCHANGED out
                   ELSE \E list \in topMerge(out[ua], cands, k) :
                            out' = [out EXCEPT ![ua] = list]
                /\ rpos' = rpos + 1
                /\ UNCHANGED <<phase, lo>>
    /\ UNCHANGED <<countVars, cfgVars, probe, prepVars, evalVars, flagVars, statVars, lastU, basket, jobs, jobsClosed, emitted,
                   workerVars, shardVars, block, itemUsers, local, results,
                   resultsClosed, nparts, global, csv>>

\* ------------------------------- sequential item-based Pearson (two passes)

\* PASADA 1: every record of the file adds to itemStats[i], no filter applied
ItemRows(i) == {n \in 1 .. Len(file) : file[n][2] = i}

ItemStats(i) == [sum |-> SumRatings(ItemRows(i)), cnt |-> Cardinality(ItemRows(i))]

\* rp = r - itemMean[i]; the model keeps the integer cnt_i * rp = cnt_i * r - sum_i
CentredByItem(rec) == aux[rec[2]] * rec[3] - itemSum[rec[2]]

\* PASADA 2, one record: user filter, user switch, item filter, centring
RecStepPearsonSeq(lu, bk, rec) ==
    IF ~keepByPct(rec[1], pctUsers) THEN Reject(lu, bk, rec[1])
    ELSE LET sw == Switch(lu, bk, rec[1])
         IN  IF ~keepByPct(rec[2], pctItems) THEN sw
             ELSE [sw EXCEPT !.basket = Append(sw.basket, <<rec[2], CentredByItem(rec)>>)]

\* flush(): the items of the user are accumulated into co, pair by pair
SeqFlush(bk) ==
    IF bk = <<>> THEN UNCHANGED <<global, emitted, pairsUpdated>>
    ELSE /\ global' = Flush(global, bk)
         /\ emitted' = Append(emitted, bk)
         /\ pairsUpdated' = pairsUpdated + (Len(bk) * (Len(bk) - 1)) \div 2

SeqMeans ==
    /\ phase = "init"
    /\ fault # "open"
    /\ variant = "pearson_item_seq"
    /\ aux' = [i \in Ids |-> ItemStats(i).cnt]
    /\ itemSum' = [i \in Ids |-> ItemStats(i).sum]
    /\ phase' = "reading"
    /\ UNCHANGED <<cfgVars, probe, prepVars, evalVars, flagVars, readerVars, workerVars, shardVars, localVars,
                   outVars, countVars>>

SeqReadRec ==
    /\ phase = "reading"
    /\ variant = "pearson_item_seq"
    /\ rpos <= Len(file)
    /\ LET st == RecStepPearsonSeq(lastU, basket, file[rpos])
       IN  /\ SeqFlush(st.send)
           /\ lastU' = st.lastU
           /\ basket' = st.basket
    /\ rpos' = rpos + 1
    /\ UNCHANGED <<cfgVars, probe, prepVars, evalVars, flagVars, phase, statVars, jobs, jobsClosed, workerVars,
                   shardVars, localVars, out, csv, wcnt>>

\* end of file: flush() for the last user; the flags are first used after it
SeqReadEOF ==
    /\ phase = "reading"
    /\ variant = "pearson_item_seq"
    /\ rpos = Len(file) + 1
    /\ SeqFlush(basket)
    /\ basket' = <<>>
    /\ k' \in KChoices
    /\ minCo' \in MinCoChoices
    /\ phase' = "topk"
    /\ UNCHANGED <<cfgVars, probe, prepVars, evalVars, shrink, statVars, rpos, lastU, jobs, jobsClosed, workerVars,
                   shardVars, localVars, out, csv, wcnt>>

\* for i, m := range co { ...; sort; cands[:k]; out[i] = cands }
SeqTopK ==
    /\ phase = "topk"
    /\ variant = "pearson_item_seq"
    /\ out' \in Assignments([i \in RowsOf(global) |-> topK(LocalCands(global, i), k)])
    /\ phase' = "writing"
    /\ UNCHANGED <<cfgVars, probe, prepVars, evalVars, flagVars, statVars, readerVars, workerVars, shardVars,
                   localVars, global, csv, countVars>>

\* --------------------------------------------------------- neighbour CSV

RECURSIVE Orders(_)
\* every order a range over a Go map can visit the keys S in
Orders(S) ==
    IF S = {} THEN {<<>>}
    ELSE UNION {{<<x>> \o t : t \in Orders(S \ {x})} : x \in S}

RECURSIVE SortedIds(_)
\* the ids of S in ascending order: for u := 0; u < U; u++
SortedIds(S) ==
    IF S = {} THEN <<>>
    ELSE LET x == CHOOSE y \in S : \A z \in S : y <= z IN <<x>> \o SortedIds(S \ {x})

RECURSIVE RowsInOrder(_)
\* the CSV rows of the lists of out, rows visited in the order ord
RowsInOrder(ord) ==
    IF ord = <<>> THEN <<>>
    ELSE [n \in 1 .. Len(out[Head(ord)]) |->
             <<Head(ord), out[Head(ord)][n].j, out[Head(ord)][n].s>>]
         \o RowsInOrder(Tail(ord))

\* every sequence of rows the write loop can produce from out:
\*   legacy      for u := 0; u < U; u++ { for _, p := range out[u] { write } }
\*   the others  for i, list := range out { for _, p := range list { write } }
CsvOutcomes ==
    IF variant = "pearson_user_legacy"
    THEN {RowsInOrder(SortedIds(Ids))}
    ELSE {RowsInOrder(ord) : ord \in Orders({i \in Ids : out[i] # <<>>})}

\* programs whose CSV is written by writeTopKCSV, which returns the error of
\* os.Create; pearson.go has  f, _ := os.Create(..)
CreateChecked == ShardedVariants \cup LocalVariants
\* programs that return the error of os.WriteFile(report); part_002 and
\* pearson.go have  _ = os.WriteFile(..)
ReportChecked == {"jaccard_shard"} \cup LocalVariants

\* the input cannot be opened: os.Open returns an error that main panics on,
\* os.ReadFile of a CSR blob panics
OpenFail ==
    /\ phase = "init"
    /\ fault = "open"
    /\ phase' = "error"
    /\ UNCHANGED <<countVars, cfgVars, probe, prepVars, evalVars, flagVars, statVars, readerVars, workerVars,
                   shardVars, outVars, localVars>>

\* writeTopKCSV, then the report is written and the run returns.
\*   _ = w.Write(rec) ; defer w.Flush()   a failed write loses the rows from
\*                                         some row on and is not reported
\*   os.Create fails                       nothing is written
WriteCSV ==
    /\ phase = "writing"
    /\ csv' \in (IF fault = "create" THEN {<<>>}
                ELSE IF fault = "write"
                     THEN UNION {{SubSeq(rows, 1, n) : n \in 0 .. Len(rows) - 1} \cup {<<>>} :
                                 rows \in CsvOutcomes}
                ELSE CsvOutcomes)
    /\ phase' = IF \/ (fault = "create" /\ variant \in CreateChecked)
                  \/ (fault = "report" /\ variant \in ReportChecked)
               THEN "error" ELSE "done"
    /\ UNCHANGED <<countVars, cfgVars, probe, prepVars, evalVars, flagVars, statVars, readerVars, workerVars, shardVars, global, out, localVars>>

\* the CSR arrays before normalize has run
EmptyCsr == [indptr |-> <<>>, indices |-> <<>>, data |-> <<>>]

\* ------------------------------------- the reading buffer and the sent slices

\* capacity of make([]rating, 0, 128), scaled down
itemsCap == 2

BufferVariants == {"cosine_shard", "cosine_item_conc"}

\* rating{}: the zero value in the unused part of a backing array
ZeroRating == <<0, 0>>

\* part_002: items := make([]rating, 0, 128); cosine_concurrent.go: var items []rating
InitHeap ==
    IF variant = "cosine_shard" THEN <<[j \in 1 .. itemsCap |-> ZeroRating]>> ELSE <<>>

\* the slice handed over shares the backing array of items
emitAlias(h, ptr, n) == [heap |-> h, ptr |-> ptr]

\* cp := make([]rating, len(items)); copy(cp, items)   (part_002)
\* append([]rating(nil), items...)                      (cosine_concurrent.go)
emitCopy(h, ptr, n) == [heap |-> Append(h, SubSeq(h[ptr], 1, n)), ptr |-> Len(h) + 1]

\* items = append(items, x) on a slice of length n: in place while the
\* capacity allows, else into a new array of twice the length (1 from empty)
GoAppend(h, ptr, n, x) ==
    IF ptr # 0 /\ n < Len(h[ptr])
    THEN [heap |-> [h EXCEPT ![ptr][n + 1] = x], ptr |-> ptr]
    ELSE LET old == IF ptr = 0 THEN <<>> ELSE SubSeq(h[ptr], 1, n)
             newcap == IF n = 0 THEN 1 ELSE 2 * n
         IN  [heap |-> Append(h, old \o <<x>> \o [j \in 1 .. (newcap - n - 1) |-> ZeroRating]),
              ptr |-> Len(h) + 1]

\* emitUser on the buffer bk: heap and queue after it (items = items[:0]
\* keeps the backing array)
EmitUser(bk) ==
    IF bk = <<>> THEN [heap |-> heap, queued |-> queued]
    ELSE LET e == emitCopy(heap, itemsPtr, Len(bk))
         IN  [heap |-> e.heap,
              queued |-> Append(queued, [ptr |-> e.ptr, len |-> Len(bk), sent |-> bk])]

\* one iteration of the read loop, on the slices
BufRead ==
    /\ phase = "init"
    /\ rpos <= Len(file)
    /\ LET st == RecStepCosine(lastU, basket, file[rpos])
           em == EmitUser(st.send)
           n0 == IF st.send = <<>> THEN Len(basket) ELSE 0
           g == IF Len(st.basket) > n0
                THEN GoAppend(em.heap, itemsPtr, n0, st.basket[Len(st.basket)])
                ELSE [heap |-> em.heap, ptr |-> itemsPtr]
       IN  /\ heap' = g.heap
           /\ itemsPtr' = g.ptr
           /\ queued' = em.queued
           /\ lastU' = st.lastU
           /\ basket' = st.basket
    /\ rpos' = rpos + 1
    /\ UNCHANGED <<evalVars, held, userIdx, itemIdx, buf, userCsr, itemCsr, probe, cfgVars, flagVars, phase,
                   statVars, jobs, jobsClosed, emitted, workerVars, shardVars, localVars,
                   outVars, countVars>>

\* end of file: emitUser() for the last user
BufEOF ==
    /\ phase = "init"
    /\ rpos = Len(file) + 1
    /\ heap' = EmitUser(basket).heap
    /\ queued' = EmitUser(basket).queued
    /\ basket' = <<>>
    /\ phase' = "closing"
    /\ UNCHANGED <<evalVars, itemsPtr, held, userIdx, itemIdx, buf, userCsr, itemCsr, probe, cfgVars, flagVars,
                   statVars, rpos, lastU, jobs, jobsClosed, emitted, workerVars, shardVars,
                   localVars, outVars, countVars>>

\* a worker receives the oldest slice and keeps reading it
BufRecv ==
    /\ queued # <<>>
    /\ held' = Append(held, Head(queued))
    /\ queued' = Tail(queued)
    /\ UNCHANGED <<evalVars, heap, itemsPtr, userIdx, itemIdx, buf, userCsr, itemCsr, probe, cfgVars, flagVars,
                   phase, statVars, readerVars, workerVars, shardVars, localVars, outVars,
                   countVars>>


\* ------------------------------------------------ evaluator: hold-out split

\* a float64 is <<kind, num, den>>: the finite value num/den ("fin"), NaN,
\* +Inf, -Inf, or "over", a finite value whose product with the length of a
\* list is at or above 2^63
Fin(num, den) == <<"fin", num, den>>

\* default of the flag --test_ratio
DefaultRatio == Fin(1, 10)

\* values the flag is given; flag.Float64Var takes every float64, NaN and Inf
\* included
RatioChoices ==
    {Fin(-1, 2), Fin(0, 1), Fin(1, 10), Fin(1, 4), Fin(1, 2), Fin(9, 10), Fin(1, 1), Fin(3, 1),
     <<"over", 0, 1>>, <<"nan", 0, 1>>, <<"posinf", 0, 1>>, <<"neginf", 0, 1>>}

RECURSIVE LoadUser(_, _)
\* users[u] after the first n records: the <<i, r>> of user u in file order
LoadUser(u, n) ==
    IF n = 0 THEN <<>>
    ELSE IF file[n][1] = u THEN Append(LoadUser(u, n - 1), <<file[n][2], file[n][3]>>)
         ELSE LoadUser(u, n - 1)

\* math.Round(x * float64(n)): nearest integer, halves away from zero
RoundMul(x, n) ==
    IF x[1] # "fin" THEN x
    ELSE LET p == x[2] * n
             d == x[3]
         IN  Fin(IF p >= 0 THEN (2 * p + d) \div (2 * d) ELSE -((2 * (-p) + d) \div (2 * d)), 1)

\* math.Max(1, y) for an integral y: NaN if y is NaN
MaxOne(y) ==
    CASE y[1] = "fin" -> Fin(IF y[2] > 1 THEN y[2] ELSE 1, 1)
      [] y[1] = "neginf" -> Fin(1, 1)
      [] OTHER -> y

\* int(y): the value if int holds it; otherwise the result depends on the
\* build: the smallest int (amd64), or the nearest int and 0 for NaN (arm64).
\* The extremes of the 64-bit int stand as those of 32 bits; szTest is only
\* compared.
IntOf(y) ==
    CASE y[1] = "fin" -> {y[2]}
      [] y[1] = "nan" -> {-2147483647, 0}
      [] OTHER -> {-2147483647, 2147483647}

\* one iteration of `for u, lst := range users`, in the order the map gives
\* and with the permutation rand.Perm gives
SplitUser ==
    /\ variant = "recommend"
    /\ \E u \in Users \ visited :
          LET lst == LoadUser(u, Len(file))
          IN  /\ lst # <<>>
              /\ visited' = visited \cup {u}
              /\ IF Len(lst) < 2 THEN UNCHANGED <<test, train>>
                 ELSE \E perm \in Orders(1 .. Len(lst)),
                         conv \in IntOf(MaxOne(RoundMul(testRatio, Len(lst)))) :
                        LET szTest == IF conv >= Len(lst) THEN Len(lst) - 1 ELSE conv
                            nTest == IF szTest < 0 THEN 0 ELSE szTest
                            kept == nTest + 1 .. Len(lst)
                            lastOf(i) == CHOOSE n \in kept :
                                            /\ lst[perm[n]][1] = i
                                            /\ \A m \in kept : m > n => lst[perm[m]][1] # i
                        IN  /\ test' = test \o [n \in 1 .. nTest |->
                                                   <<u, lst[perm[n]][1], lst[perm[n]][2]>>]
                            /\ train' = Put(train, u,
                                            [i \in {lst[perm[n]][1] : n \in kept} |->
                                                lst[perm[lastOf(i)]][2]])
    /\ UNCHANGED <<testRatio, cfgVars, flagVars, phase, statVars, readerVars, workerVars, shardVars,
                   localVars, outVars, countVars, probe, prepVars>>

\* ------------------------------------------- concurrent runs: specification

InitRun ==
    /\ k = 0 /\ minCo = 0 /\ shrink = 0
    /\ phase = "init"
    /\ aux = [i \in Ids |-> 0]
    /\ itemSum = [i \in Ids |-> 0]
    /\ rpos = 1 /\ lastU = -1 /\ basket = <<>>
    /\ jobs = <<>> /\ jobsClosed = FALSE /\ emitted = <<>>
    /\ wpc = [w \in WorkerIds |-> "off"]
    /\ wjob = [w \in WorkerIds |-> <<>>]
    /\ wa = [w \in WorkerIds |-> 0]
    /\ wb = [w \in WorkerIds |-> 0]
    /\ wreg = [w \in WorkerIds |-> ZeroAcc]
    /\ shards = EmptyMap /\ mu = {} /\ scanIdx = 0
    /\ block = <<>> /\ lo = 0
    /\ itemUsers = [i \in Items |-> <<>>]
    /\ local = [w \in WorkerIds |-> EmptyMap]
    /\ results = <<>> /\ resultsClosed = FALSE /\ nparts = 0
    /\ global = EmptyMap
    /\ out = [i \in Ids |-> <<>>]
    /\ csv = <<>>
    /\ pairsUpdated = 0
    /\ wcnt = [w \in WorkerIds |-> 0]
    /\ probe = <<>>
    /\ userIdx = <<>> /\ itemIdx = <<>> /\ buf = <<>>
    /\ userCsr = EmptyCsr /\ itemCsr = EmptyCsr
    /\ heap = InitHeap /\ itemsPtr = Len(InitHeap)
    /\ queued = <<>> /\ held = <<>>
    /\ test = <<>> /\ train = EmptyMap /\ visited = {}

\* the concurrent programs on every file, every pool size, sampling off
InitConc ==
    /\ variant \in ShardedVariants \cup LocalVariants
    /\ file \in Files
    /\ workers \in 1 .. MaxWorkers
    /\ pctUsers = 100
    /\ pctItems = 100
    /\ csr = WellFormedCsr
    /\ fault = "none"
    /\ rawCsv = <<>>
    /\ badAt = 0
    /\ testRatio = DefaultRatio
    /\ InitRun

NextConc ==
    \/ CountPass
    \/ ReadRec
    \/ ReadEOF
    \/ CloseJobs
    \/ \E w \in WorkerIds : WRecv(w)
    \/ \E w \in WorkerIds : WExit(w)
    \/ \E w \in WorkerIds : WEnter(w)
    \/ \E w \in WorkerIds : WLeave(w)
    \/ \E w \in WorkerIds : WCount(w)
    \/ Join
    \/ LockShard
    \/ ScanShard
    \/ MergeShards
    \/ TopKCosineNorm
    \/ LocalStart
    \/ LocalReadRec
    \/ LocalReadEOF
    \/ LocalFlushBlock
    \/ Invert
    \/ Enqueue
    \/ LocalCloseJobs
    \/ \E w \in WorkerIds : LocalRecv(w)
    \/ \E w \in WorkerIds : LocalSendPart(w)
    \/ CloseResults
    \/ Reduce
    \/ ReduceDone
    \/ LocalTopK
    \/ WriteCSV

SpecConc == InitConc /\ [][NextConc]_vars

\* the Go scheduler runs some goroutine that is able to move
FairSpecConc == SpecConc /\ WF_vars(NextConc)


\* ------------------------------------------------ sampling filter on its own

\* identifiers and percentages keepByPct is called with
ProbeIds == (0 .. 63) \cup {255, 256, 65535, 65536, 16777215, 16777216, 2147483647}
ProbePcts == {-5, 0, 1, 5, 10, 25, 50, 99, 100, 150}

\* one call keepByPct(id, pct)
Probe ==
    /\ \E id \in ProbeIds, pct \in ProbePcts : probe' = <<id, pct, keepByPct(id, pct)>>
    /\ UNCHANGED <<prepVars, evalVars, cfgVars, flagVars, phase, statVars, readerVars, workerVars, shardVars,
                   localVars, outVars, countVars>>

InitHash ==
    /\ variant = "jaccard_shard"
    /\ file = <<>>
    /\ workers = 1
    /\ pctUsers = 100
    /\ pctItems = 100
    /\ csr = WellFormedCsr
    /\ fault = "none"
    /\ rawCsv = <<>>
    /\ badAt = 0
    /\ testRatio = DefaultRatio
    /\ InitRun

SpecHash == InitHash /\ [][Probe]_vars

\* ------------------------------------------------- preprocessing: remap

\* longest raw file drawn as input
MaxRaw == 3

\* the raw files: rows <<userId, movieId, rating>> whose ids do not appear in
\* numeric order, and rows with fewer than three fields (<<0>>)
RawInputs ==
    UNION {[1 .. n -> (({7, 3} \X {9, 5} \X {1, 2}) \cup {<<0>>})] : n \in 0 .. MaxRaw}

RECURSIVE RemapRows(_)
\* the read loop after the first n rows: a row with fewer than three fields
\* is skipped, an id not yet in its map gets the next index
RemapRows(n) ==
    IF n = 0
    THEN [userIdx |-> <<>>, itemIdx |-> <<>>, nextU |-> 0, nextI |-> 0, buf |-> <<>>]
    ELSE LET st == RemapRows(n - 1)
             row == rawCsv[n]
         IN  IF Len(row) < 3 THEN st
             ELSE LET newU == row[1] \notin DOMAIN st.userIdx
                      newI == row[2] \notin DOMAIN st.itemIdx
                      u == IF newU THEN st.nextU ELSE st.userIdx[row[1]]
                      i == IF newI THEN st.nextI ELSE st.itemIdx[row[2]]
                  IN  [userIdx |-> IF newU THEN Put(st.userIdx, row[1], u) ELSE st.userIdx,
                       itemIdx |-> IF newI THEN Put(st.itemIdx, row[2], i) ELSE st.itemIdx,
                       nextU |-> IF newU THEN st.nextU + 1 ELSE st.nextU,
                       nextI |-> IF newI THEN st.nextI + 1 ELSE st.nextI,
                       buf |-> Append(st.buf, <<u, i, row[3]>>)]

\* the less function of the sort: by U, and by I within a user
remapLessUserOnly(s, t) == s[1] < t[1]
remapLess(s, t) == IF s[1] = t[1] THEN s[2] < t[2] ELSE s[1] < t[1]

RECURSIVE SortSlice(_)
\* every order sort.Slice(buf, less) can leave buf in
SortSlice(q) ==
    IF q = <<>> THEN {<<>>}
    ELSE UNION {{<<q[n]>> \o t : t \in SortSlice(Remove(q, n))} :
                 n \in {m \in 1 .. Len(q) : \A z \in 1 .. Len(q) : ~remapLess(q[z], q[m])}}

\* remap: maps built, triplets sorted and written
Remap ==
    /\ buf = <<>>
    /\ rawCsv # <<>>
    /\ userIdx' = RemapRows(Len(rawCsv)).userIdx
    /\ itemIdx' = RemapRows(Len(rawCsv)).itemIdx
    /\ buf' \in SortSlice(RemapRows(Len(rawCsv)).buf)
    /\ UNCHANGED <<userCsr, itemCsr, heapVars, evalVars, probe, cfgVars, flagVars, phase, statVars, readerVars,
                   workerVars, shardVars, localVars, outVars, countVars>>

\* --------------------------------------------- preprocessing: normalize

\* U: largest user index of ratings_ui.csv plus one
NormU ==
    IF file = <<>> THEN 0
    ELSE 1 + (CHOOSE u \in Users :
                 /\ \E n \in 1 .. Len(file) : file[n][1] = u
                 /\ \A n \in 1 .. Len(file) : file[n][1] <= u)

RECURSIVE UserCsrRows(_)
\* the user CSR loop after the first n rows: the row pointers of the users
\* currU .. t.u are set to pos, then the row is stored at pos
UserCsrRows(n) ==
    IF n = 0
    THEN [indptr |-> [u \in 0 .. NormU |-> 0],
          indices |-> [p \in 0 .. Len(file) - 1 |-> 0],
          data |-> [p \in 0 .. Len(file) - 1 |-> 0],
          currU |-> 0, pos |-> 0]
    ELSE LET st == UserCsrRows(n - 1)
             t == file[n]
         IN  [indptr |-> [u \in 0 .. NormU |->
                            IF st.currU <= u /\ u <= t[1] THEN st.pos ELSE st.indptr[u]],
              indices |-> [st.indices EXCEPT ![st.pos] = t[2]],
              data |-> [st.data EXCEPT ![st.pos] = CsrData(n)],
              currU |-> IF st.currU <= t[1] THEN t[1] + 1 ELSE st.currU,
              pos |-> st.pos + 1]

\* row pointers holding the counts themselves
ItemIndptrCounts == [i \in 0 .. MaxI |-> Cardinality({n \in 1 .. Len(file) : file[n][2] = i - 1})]
\* row pointers of the item CSR: indptr[i+1] = indptr[i] + itemCnt[i]
ItemIndptr == [i \in 0 .. MaxI |-> Cardinality({n \in 1 .. Len(file) : file[n][2] < i})]

RECURSIVE ItemCsrRows(_)
\* the scatter loop of the item CSR after the first n rows: the row goes to
\* the write cursor of its item, which then advances
ItemCsrRows(n) ==
    IF n = 0
    THEN [indices |-> [p \in 0 .. Len(file) - 1 |-> 0],
          data |-> [p \in 0 .. Len(file) - 1 |-> 0],
          writePos |-> [i \in 0 .. MaxI - 1 |-> ItemIndptr[i]]]
    ELSE LET st == ItemCsrRows(n - 1)
             t == file[n]
             p == st.writePos[t[2]]
         IN  [indices |-> [st.indices EXCEPT ![p] = t[1]],
              data |-> [st.data EXCEPT ![p] = ItemStats(t[2]).cnt * t[3] - ItemStats(t[2]).sum],
              writePos |-> [st.writePos EXCEPT ![t[2]] = p + 1]]

\* normalize --axis=both: the user CSR, then the item CSR
Normalize ==
    /\ userCsr = EmptyCsr
    /\ LET st == UserCsrRows(Len(file))
       IN  userCsr' = [indptr |-> [u \in 0 .. NormU |->
                                     IF st.currU <= u THEN st.pos ELSE st.indptr[u]],
                       indices |-> st.indices,
                       data |-> st.data]
    /\ itemCsr' = [indptr |-> ItemIndptr,
                   indices |-> ItemCsrRows(Len(file)).indices,
                   data |-> ItemCsrRows(Len(file)).data]
    /\ UNCHANGED <<userIdx, itemIdx, buf, heapVars, evalVars, probe, cfgVars, flagVars, phase, statVars, readerVars,
                   workerVars, shardVars, localVars, outVars, countVars>>

\* a raw file for remap, or a triplet file for normalize
InitPrep ==
    /\ variant = "jaccard_shard"
    /\ workers = 1
    /\ pctUsers = 100
    /\ pctItems = 100
    /\ \/ rawCsv \in RawInputs /\ file = <<>>
       \/ rawCsv = <<>> /\ file \in Files
    /\ csr = WellFormedCsr
    /\ fault = "none"
    /\ badAt = 0
    /\ testRatio = DefaultRatio
    /\ InitRun

NextPrep ==
    \/ Remap
    \/ Normalize

SpecPrep == InitPrep /\ [][NextPrep]_vars

\* ------------------------------------------- sampled runs: specification

AllVariants ==
    ShardedVariants \cup LocalVariants \cup {"pearson_user_legacy", "pearson_item_seq"}

\* every program on every file and every sampling percentage, pool of one
Init ==
    /\ variant \in AllVariants
    /\ file \in Files
    /\ workers = 1
    /\ pctUsers \in (IF variant = "pearson_user_legacy" THEN {100} ELSE PctChoices)
    /\ pctItems \in (IF variant = "pearson_user_legacy" THEN {100} ELSE PctChoices)
    /\ csr = WellFormedCsr
    /\ fault = "none"
    /\ rawCsv = <<>>
    /\ badAt = 0
    /\ testRatio = DefaultRatio
    /\ InitRun

Next ==
    \/ NextConc
    \/ LegacyLoad
    \/ LegacyStep
    \/ SeqMeans
    \/ SeqReadRec
    \/ SeqReadEOF
    \/ SeqTopK

Spec == Init /\ [][Next]_vars

FairSpec == Spec /\ WF_vars(Next)

\* ------------------------------- runs on bad inputs and with failing files

\* every program on every file, pool of one, sampling off, and either
\*   - a file operation that fails in this run, or
\*   - for the programs that load the user CSR of a non-empty file: one blob
\*     with a trailing byte, or indices.bin and data.bin with one element (a
\*     zero) more than indptr's last row pointer, or a meta.json whose Items
\*     is the largest item index
InitEnv ==
    /\ variant \in AllVariants
    /\ file \in Files
    /\ workers = 1
    /\ pctUsers = 100
    /\ pctItems = 100
    /\ \/ /\ fault \in {"none", "open", "create", "write", "report"}
          /\ csr = WellFormedCsr
       \/ /\ fault = "none"
          /\ variant \in UserLocalVariants
          /\ file # <<>>
          /\ csr \in {[WellFormedCsr EXCEPT !.indptr = @ + 1],
                       [WellFormedCsr EXCEPT !.indices = @ + 1],
                       [WellFormedCsr EXCEPT !.data = @ + 1],
                       [WellFormedCsr EXCEPT !.indices = @ + 4, !.data = @ + 4],
                       [WellFormedCsr EXCEPT !.items = MaxI - 1]}
    /\ rawCsv = <<>>
    /\ badAt = 0
    /\ testRatio = DefaultRatio
    /\ InitRun

NextEnv ==
    \/ Next
    \/ OpenFail

SpecEnv == InitEnv /\ [][NextEnv]_vars

\* ------------------------- runs on files whose items come in any order

\* longest file drawn with its items in any order
MaxUnsorted == 3

\* triplet files grouped by ascending user, the items of a user in any order
GroupedFiles ==
    {q \in UNION {Orders(T) : T \in {S \in SUBSET Triplets : Cardinality(S) <= MaxUnsorted}} :
        \A n, m \in 1 .. Len(q) : n < m => q[n][1] <= q[m][1]}

\* the concurrent programs on such a file, pool of one, sampling off
InitAnyOrder ==
    /\ variant \in ShardedVariants \cup LocalVariants
    /\ file \in GroupedFiles
    /\ workers = 1
    /\ pctUsers = 100
    /\ pctItems = 100
    /\ csr = WellFormedCsr
    /\ fault = "none"
    /\ rawCsv = <<>>
    /\ badAt = 0
    /\ testRatio = DefaultRatio
    /\ InitRun

SpecAnyOrder == InitAnyOrder /\ [][NextConc]_vars

\* ----------------------------- the reader on its slices: specification

\* the two readers that copy the buffer, on every file, with and without
\* rejected users
InitBuffer ==
    /\ variant \in BufferVariants
    /\ file \in Files
    /\ workers = 1
    /\ pctUsers \in PctChoices
    /\ pctItems = 100
    /\ csr = WellFormedCsr
    /\ fault = "none"
    /\ rawCsv = <<>>
    /\ badAt = 0
    /\ testRatio = DefaultRatio
    /\ InitRun

NextBuffer ==
    \/ BufRead
    \/ BufEOF
    \/ BufRecv

SpecBuffer == InitBuffer /\ [][NextBuffer]_vars

\* ------------------------- runs on a file with an unreadable line

\* the concurrent programs, pool of one, sampling off, on a triplet file in
\* which a line the csv reader rejects (a wrong number of fields, a bare
\* quote) stands before record badAt; the user-based programs read the
\* binary matrices and no triplet file
InitBadRec ==
    /\ variant \in ShardedVariants \cup LocalVariants
    /\ file \in Files
    /\ workers = 1
    /\ pctUsers = 100
    /\ pctItems = 100
    /\ csr = WellFormedCsr
    /\ fault = "none"
    /\ rawCsv = <<>>
    /\ badAt \in (IF variant \in UserLocalVariants THEN {0} ELSE 0 .. Len(file))
    /\ testRatio = DefaultRatio
    /\ InitRun

SpecBadRec == InitBadRec /\ [][NextConc]_vars

\* ------------------------------------------------ evaluator: specification

\* the evaluator on every ratings file and every value of --test_ratio
InitSplit ==
    /\ variant = "recommend"
    /\ file \in Files
    /\ workers = 1
    /\ pctUsers = 100
    /\ pctItems = 100
    /\ csr = WellFormedCsr
    /\ fault = "none"
    /\ rawCsv = <<>>
    /\ badAt = 0
    /\ testRatio \in RatioChoices
    /\ InitRun

SpecSplit == InitSplit /\ [][SplitUser]_vars

\* ------------------------------------------------------------------ claims

AfterJoin == phase \in {"finalising", "topk", "writing", "done"}

BasketItems(bk) == {bk[n][1] : n \in 1 .. Len(bk)}

\* number of emitted baskets that contain both a and b
BasketsWith(a, b) ==
    Cardinality({n \in 1 .. Len(emitted) :
                    a \in BasketItems(emitted[n]) /\ b \in BasketItems(emitted[n])})

\* shards that hold an entry under the key <<a, b>>
ShardsHolding(a, b) == {idx \in DOMAIN shards : <<a, b>> \in DOMAIN shards[idx]}

\* C1: in the sharded runs, once every worker has exited, the count stored
\* for each pair a < b is the number of emitted baskets containing both a and
\* b, whatever the pool size and the interleaving of updatePair; a pair that
\* never co-occurred has no entry, and no entry is keyed by a >= b.
C1_ShardedCountsExact ==
    (variant \in ShardedVariants /\ AfterJoin) =>
        \A a \in Ids, b \in Ids :
            IF a < b /\ BasketsWith(a, b) > 0
            THEN /\ ShardsHolding(a, b) = {ShardOf[<<a, b>>]}
                 /\ shards[ShardOf[<<a, b>>]][<<a, b>>].c = BasketsWith(a, b)
            ELSE ShardsHolding(a, b) = {}

\* a pool of two workers has processed two baskets holding the same pair
C1_Witness ==
    /\ variant \in ShardedVariants /\ AfterJoin
    /\ workers = 2
    /\ \E a \in Ids, b \in Ids :
          /\ a < b
          /\ BasketsWith(a, b) = 2
          /\ shards[ShardOf[<<a, b>>]][<<a, b>>].c = 2

AfterReduce == variant \in LocalVariants /\ phase \in {"topk", "writing", "done"}

\* C2: in the worker-local-map runs, once the reduce loop has ended, the
\* global accumulator equals the sequential accumulation of the emitted
\* baskets, in count and in every sum, whichever worker took which job and
\* in whatever order the partial maps reached the reducer.
C2_MergeEqualsSequential ==
    AfterReduce => global = FlushAll(EmptyMap, emitted)

\* two workers each delivered a non-empty partial map for the same single pair
C2_Witness ==
    /\ AfterReduce
    /\ workers = 2
    /\ nparts = 2
    /\ Cardinality(DOMAIN global) = 1
    /\ \E key \in DOMAIN global : global[key].c = 2

\* the whole sharded accumulator as one map
AllShards == MergeMaps(EmptyMap, DOMAIN shards)

\* C3: in the sharded Jaccard run, the neighbour list of every outer item i
\* is a top-K selection among all qualifying pairs (i, j) of the whole
\* accumulator, whichever shards hold them.
C3_TopKOverAllShards ==
    (variant = "jaccard_shard" /\ phase \in {"writing", "done"}) =>
        \A i \in Items : out[i] \in topK(JaccardCands(AllShards, i), k)

CsvRowsOf(a) == {n \in 1 .. Len(csv) : csv[n][1] = a}

\* C4: in every finished run, every output row has at most K written
\* neighbours and no neighbour id is written twice in the same row.
C4_AtMostKNoDuplicate ==
    phase = "done" =>
        \A a \in Ids :
            /\ Cardinality(CsvRowsOf(a)) <= k
            /\ \A m \in CsvRowsOf(a), n \in CsvRowsOf(a) :
                  m # n => csv[m][2] # csv[n][2]

\* co-occurrence count of (a, b) in the final accumulator of the run
AccCount(a, b) ==
    IF variant \in ShardedVariants THEN Entry(AllShards, <<a, b>>).c
    ELSE IF variant \in LocalVariants THEN Entry(global, <<a, b>>).c
    ELSE BasketsWith(a, b)

\* C5: every written pair (row, neighbour) has a final co-occurrence count
\* of at least min_co.
C5_SupportOfWrittenPairs ==
    phase = "done" =>
        \A n \in 1 .. Len(csv) : AccCount(csv[n][1], csv[n][2]) >= minCo

\* with min_co = 2, a pair that two baskets hold was written
C5_Witness ==
    /\ phase = "done"
    /\ minCo = 2
    /\ \E n \in 1 .. Len(csv) : AccCount(csv[n][1], csv[n][2]) = 2

\* C6: no written row of a concurrent run, whatever the measure and the
\* mode, carries a score <= 0.
C6_NoNonPositiveScore ==
    (variant \in ShardedVariants \cup LocalVariants /\ phase = "done") =>
        \A n \in 1 .. Len(csv) : SPositive(csv[n][3])

\* number of emitted baskets that contain i
BasketDegree(i) ==
    Cardinality({n \in 1 .. Len(emitted) : i \in BasketItems(emitted[n])})

\* C7: in the sharded Jaccard run every accumulated pair has an intersection
\* count no larger than either degree and a union of at least 1, and every
\* written score, shrunk or not, lies in (0, 1].
C7_JaccardRange ==
    (variant = "jaccard_shard" /\ phase = "done") =>
        /\ \A key \in DOMAIN AllShards :
              /\ AllShards[key].c <= aux[key[1]]
              /\ AllShards[key].c <= aux[key[2]]
              /\ JaccardUnion(AllShards[key], aux[key[1]], aux[key[2]]) >= 1
        /\ \A n \in 1 .. Len(csv) : SPositive(csv[n][3]) /\ SAtMostOne(csv[n][3])

\* a shrunk score below 1 and an unshrunk score were written
C7_Witness ==
    /\ variant = "jaccard_shard" /\ phase = "done"
    /\ shrink = 1
    /\ \E n \in 1 .. Len(csv) : ~SEq(csv[n][3], [num |-> 1, rad |-> 1])
    /\ \E key \in DOMAIN AllShards :
          /\ AllShards[key].c = 2
          /\ JaccardUnion(AllShards[key], aux[key[1]], aux[key[2]]) = 2

\* C8: in the sharded Jaccard run the degree used for item i is the number
\* of emitted baskets containing i, and every written score of (a, b) is
\* n / (deg_a + deg_b - n), n the number of emitted baskets containing both
\* (times n / (n + shrink) when shrinkage is on).
C8_SampledDegree ==
    (variant = "jaccard_shard" /\ AfterJoin) =>
        /\ \A i \in Items : aux[i] = BasketDegree(i)
        /\ \A n \in 1 .. Len(csv) :
              LET a == csv[n][1]
                  b == csv[n][2]
                  inter == BasketsWith(a, b)
                  union == BasketDegree(a) + BasketDegree(b) - inter
              IN  /\ union > 0
                  /\ SEq(csv[n][3],
                         Shrunk([num |-> inter, rad |-> union * union], inter))

\* a sampled run: a row of the file was rejected on its item, another on its
\* user, and a score was written
C8_Witness ==
    /\ variant = "jaccard_shard" /\ phase = "done"
    /\ pctUsers = 50 /\ pctItems = 50
    /\ csv # <<>>
    /\ \E n \in 1 .. Len(file) :
          keepByPct(file[n][1], pctUsers) /\ ~keepByPct(file[n][2], pctItems)
    /\ \E n \in 1 .. Len(file) : ~keepByPct(file[n][1], pctUsers)

\* C9: in a concurrent run, if (a, b, s) is written in a's list and b's
\* list has fewer than K entries, then (b, a, s) is written in b's list.
C9_SymmetricEmission ==
    (variant \in ShardedVariants \cup LocalVariants /\ phase = "done") =>
        \A n \in 1 .. Len(csv) :
            Cardinality(CsvRowsOf(csv[n][2])) < k =>
                \E m \in 1 .. Len(csv) :
                    /\ csv[m][1] = csv[n][2]
                    /\ csv[m][2] = csv[n][1]
                    /\ SEq(csv[m][3], csv[n][3])

\* candidates offered to the top-K of row i
RowCands(i) ==
    IF variant = "jaccard_shard" THEN JaccardCands(AllShards, i)
    ELSE IF variant = "cosine_shard" THEN CosineNormCands(global, i)
    ELSE LocalCands(global, i)

\* x comes before y in the order (score descending, neighbour id ascending)
Before(x, y) == SLess(y.s, x.s) \/ (SEq(x.s, y.s) /\ x.j < y.j)

\* C10: every neighbour list is in the order (score descending, neighbour id
\* ascending), and with k = 1 the single neighbour is the candidate of
\* maximal score with the smallest id.
C10_TopKTotalOrder ==
    (variant \in ShardedVariants \cup LocalVariants /\ phase \in {"writing", "done"}) =>
        \A i \in Ids :
            /\ \A n \in 1 .. (Len(out[i]) - 1) : Before(out[i][n], out[i][n + 1])
            /\ (k = 1 /\ out[i] # <<>>) =>
                  \A c \in RowCands(i) : c = out[i][1] \/ Before(out[i][1], c)

\* C11: in the neighbour CSV of a concurrent run the rows of one row id are
\* contiguous and the groups come in ascending order of the row id, that is
\* the first column never decreases from one row to the next.
C11_GroupsAscending ==
    (variant \in ShardedVariants \cup LocalVariants /\ phase = "done") =>
        \A n \in 1 .. (Len(csv) - 1) : csv[n][1] <= csv[n + 1][1]

\* C12: the rows written by a concurrent run are determined by its inputs and
\* parameters: from the state in which the write begins, whatever order the
\* maps are iterated in, one sequence of rows only can be written.
C12_SingleOutcome ==
    (variant \in ShardedVariants \cup LocalVariants /\ phase = "writing") =>
        \A r1 \in CsvOutcomes, r2 \in CsvOutcomes : r1 = r2
RECURSIVE PairUpdates(_)
\* number of pair updates of a sequence of baskets: sum of n (n - 1) / 2
PairUpdates(bks) ==
    IF bks = <<>> THEN 0
    ELSE (Len(Head(bks)) * (Len(Head(bks)) - 1)) \div 2 + PairUpdates(Tail(bks))

\* C13: at the end of a concurrent run the counter of touched pairs shown
\* in the report equals the number of pair updates performed over all the
\* baskets, for every pool size and every interleaving.
C13_PairsCounterExact ==
    (variant \in ShardedVariants \cup LocalVariants /\ phase = "done") =>
        pairsUpdated = PairUpdates(emitted)
\* the four bytes of x, least significant first
RefBytes(x) == <<x % 256, (x \div 256) % 256, (x \div 65536) % 256, (x \div 16777216) % 256>>

\* exclusive or of two bytes, bit by bit
RefXor(a, b) ==
    LET bit(n) == ((a \div (2 ^ n)) + (b \div (2 ^ n))) % 2
    IN  bit(0) + 2 * bit(1) + 4 * bit(2) + 8 * bit(3)
        + 16 * bit(4) + 32 * bit(5) + 64 * bit(6) + 128 * bit(7)

\* h * 16777619 modulo 2^32 on the bytes of h (16777619 = 2^24 + 403)
RefMul(h) ==
    LET v0 == h[1] * 403
        v1 == h[2] * 403 + (v0 \div 256)
        v2 == h[3] * 403 + (v1 \div 256)
        v3 == h[4] * 403 + (v2 \div 256) + h[1]
    IN  <<v0 % 256, v1 % 256, v2 % 256, v3 % 256>>

RECURSIVE RefFold(_, _)
\* FNV-1a over a sequence of bytes: xor the byte in, then multiply
RefFold(h, bytes) ==
    IF bytes = <<>> THEN h
    ELSE RefFold(RefMul(<<RefXor(h[1], Head(bytes)), h[2], h[3], h[4]>>), Tail(bytes))

\* 32-bit FNV-1a of the four bytes of x; offset basis 0x811C9DC5
RefFnv1a(x) == RefFold(<<197, 157, 28, 129>>, RefBytes(x))

RefMod100(h) == ((((((h[4] % 100) * 256 + h[3]) % 100) * 256 + h[2]) % 100) * 256 + h[1]) % 100

\* C14: keepByPct(id, p) is true for p = 100, false for p = 0, and otherwise
\* true exactly when the 32-bit FNV-1a hash of the four little-endian bytes
\* of id, taken modulo 100, is less than p.
C14_KeepByPctIsFnv1a ==
    probe # <<>> =>
        probe[3] = (IF probe[2] = 100 THEN TRUE
                    ELSE IF probe[2] = 0 THEN FALSE
                    ELSE RefMod100(RefFnv1a(probe[1])) < probe[2])

\* keepByPct(1, 50) is false: FNV-1a of 01 00 00 00 is
\* 0xFB69B604 = 4218009092, and 92 is not below 50
C14_Witness == probe = <<1, 50, FALSE>>
\* records of item i that the basket pass admits
AdmittedRows(i) ==
    {n \in 1 .. Len(file) :
        file[n][2] = i /\ keepByPct(file[n][1], pctUsers) /\ keepByPct(i, pctItems)}

RECURSIVE SumOver(_, _)
SumOver(S, f) ==
    IF S = {} THEN 0
    ELSE LET x == CHOOSE y \in S : TRUE IN f[x] + SumOver(S \ {x}, f)

RECURSIVE TotalLen(_)
TotalLen(bks) == IF bks = <<>> THEN 0 ELSE Len(Head(bks)) + TotalLen(Tail(bks))

\* C15: once the basket pass is over, the baskets hold exactly the triplets
\* whose user and item are both kept, and the per-item statistic used in the
\* score of every item of a basket (Jaccard degree, Cosine norm, Pearson item
\* mean) is computed from those triplets only.
C15_CartesianRestriction ==
    (variant \in ShardedVariants \cup {"pearson_item_seq"}
        /\ phase \in {"topk", "finalising", "writing", "done"}) =>
        /\ TotalLen(emitted) = Cardinality(UNION {AdmittedRows(i) : i \in Items})
        /\ \A n \in 1 .. Len(emitted) : \A i \in BasketItems(emitted[n]) :
              IF variant = "pearson_item_seq"
              THEN /\ aux[i] = Cardinality(AdmittedRows(i))
                   /\ itemSum[i] = SumRatings(AdmittedRows(i))
              ELSE aux[i] = SumOver(AdmittedRows(i), [m \in 1 .. Len(file) |-> CountAdd(file[m])])
PctZero == pctUsers = 0 \/ pctItems = 0

\* C16: with pct_users = 0 or pct_items = 0 no basket is ever sent to the
\* workers (in user mode: every list of the inverted index is empty), no
\* accumulator entry is ever created, nothing but the header is written to
\* the neighbour CSV, and the run ends in the done state.
C16_EmptySample ==
    /\ [](PctZero =>
            /\ emitted = <<>>
            /\ variant \notin UserLocalVariants => jobs = <<>>
            /\ \A i \in Items : itemUsers[i] = <<>>
            /\ shards = EmptyMap /\ global = EmptyMap
            /\ \A w \in WorkerIds : local[w] = EmptyMap
            /\ out = [i \in Ids |-> <<>>]
            /\ csv = <<>>)
    /\ (PctZero ~> phase = "done")

\* a run over a file with two users and two items each, with pct_items = 0
\* and every user kept, is done
C16_Witness ==
    /\ pctItems = 0 /\ pctUsers = 100
    /\ phase = "done"
    /\ Len(file) = 4
    /\ file[1][1] # file[4][1]

\* C17: under fair scheduling every concurrent run, whatever the pool size
\* and the input, reaches the done state: the reader sends every basket and
\* closes the job channel, the workers drain it and exit, the partial maps
\* are received and the result channel closed; no state short of done is
\* without a successor.
C17_Terminates == <>(phase = "done")

\* a run with a pool of two is done: the job channel is closed and empty,
\* both workers have exited, at least two baskets went through the channel
C17_Witness ==
    /\ phase = "done"
    /\ workers = 2
    /\ jobsClosed /\ jobs = <<>>
    /\ \A w \in WorkerIds : wpc[w] = "exited"
    /\ Len(emitted) >= 2
\* position of a phase in the order of the run
PhaseRank(p) ==
    CASE p = "init" -> 0
      [] p \in {"reading", "enqueue", "accumulating"} -> 1
      [] p = "flushing" -> 2
      [] p = "closing" -> 3
      [] p \in {"joining", "reducing"} -> 4
      [] p = "finalising" -> 5
      [] p = "topk" -> 6
      [] p = "writing" -> 7
      [] OTHER -> 8

\* finalisation has begun: PASO 3 / the merge of the shards / the Top-K
Finalisation == phase \in {"finalising", "topk", "writing", "done"}

\* a neighbour list or a row exists: some accumulator entry was read for scoring
Scored == out # [i \in Ids |-> <<>>] \/ csv # <<>>

\* C18: the phases of a concurrent run follow one another in order and
\* never go back; no accumulator entry is read for scoring before every
\* worker has exited; no worker writes (to a shard or to its own map) once
\* finalisation has begun; and during finalisation the main goroutine holds
\* at most one shard lock at a time, alone, releasing it before it takes the
\* next.
C18_PhaseOrder ==
    /\ [][PhaseRank(phase') >= PhaseRank(phase)]_vars
    /\ [](Scored => Finalisation)
    /\ [](Finalisation => PoolDone /\ jobsClosed /\ jobs = <<>>)
    /\ [][Finalisation => (shards' = shards /\ local' = local)]_vars
    /\ [](MainHolds # {} =>
            /\ phase = "finalising"
            /\ Cardinality(mu) = 1)

\* with a pool of two, the main goroutine holds the lock of a shard after
\* it has already scanned and released another one
C18_Witness ==
    /\ phase = "finalising"
    /\ workers = 2
    /\ MainHolds # {}
    /\ scanIdx > 0

\* the user CSR is not what normalize.go writes: a byte length that is not a
\* multiple of the element width, a number of column indices other than the
\* last row pointer, or a column index at or above the declared item count
Malformed ==
    \/ csr.indptr % 8 # 0
    \/ csr.indices % 4 # 0
    \/ csr.data % 4 # 0
    \/ ReadBin(csr.indices, 4) # Len(file)
    \/ \E n \in 1 .. Len(file) : file[n][2] >= csr.items

\* C19: a run that loads a malformed user CSR never proceeds to accumulation:
\* it stays before the load or ends in the error state, and writes no output.
C19_InvalidFormatRejected ==
    (variant \in UserLocalVariants /\ Malformed) =>
        /\ phase \in {"init", "error"}
        /\ csv = <<>>

\* C20: a run in which a file operation fails ends in the error state and
\* never reports success: past a failed open it is in the error state, and
\* with any fault it never reaches done.
C20_FaultEndsInError ==
    /\ ((fault = "open" /\ phase # "init") => phase = "error")
    /\ (fault # "none" => phase # "done")

\* users of the file who rated both items i and j
CoRaters(i, j) ==
    {u \in Users : \E n \in 1 .. Len(file) : file[n][1] = u /\ file[n][2] = i} \cap
    {u \in Users : \E n \in 1 .. Len(file) : file[n][1] = u /\ file[n][2] = j}

RECURSIVE CoSums(_, _, _)
\* sums of r_ui * r_uj, r_ui^2, r_uj^2, r_ui and r_uj over the users of S
CoSums(S, i, j) ==
    IF S = {} THEN [xy |-> 0, x2 |-> 0, y2 |-> 0, sx |-> 0, sy |-> 0]
    ELSE LET u == CHOOSE x \in S : TRUE
             r == CoSums(S \ {u}, i, j)
         IN  [xy |-> r.xy + RatingOf(u, i) * RatingOf(u, j),
              x2 |-> r.x2 + RatingOf(u, i) * RatingOf(u, i),
              y2 |-> r.y2 + RatingOf(u, j) * RatingOf(u, j),
              sx |-> r.sx + RatingOf(u, i),
              sy |-> r.sy + RatingOf(u, j)]

ItemCosineVariants == {"cosine_item_conc", "cosine_shard"}

\* C21: without sampling and shrinkage, every row (i, j, s) written by an
\* item-based cosine run has s = Sxy / (sqrt(Sx2) * sqrt(Sy2)), the three sums
\* taken over the users who rated both i and j; a pair with one co-rater has
\* score exactly 1.
C21_CosineOverCoObservations ==
    (variant \in ItemCosineVariants /\ phase = "done" /\ shrink = 0) =>
        \A n \in 1 .. Len(csv) :
            LET cs == CoSums(CoRaters(csv[n][1], csv[n][2]), csv[n][1], csv[n][2])
            IN  /\ SEq(csv[n][3], [num |-> cs.xy, rad |-> cs.x2 * cs.y2])
                /\ (Cardinality(CoRaters(csv[n][1], csv[n][2])) = 1 =>
                        csv[n][3].num * csv[n][3].num = csv[n][3].rad)

ItemPearsonVariants == {"pearson_item_conc", "pearson_item_seq"}

\* C22: without sampling, every row (i, j, s) written by an item-based Pearson
\* run has both variance terms of the pair strictly positive,
\* n * Sx2 - Sx^2 > 0 and n * Sy2 - Sy^2 > 0 over the n users who rated both
\* items; no pair with a single co-rater is written.
C22_PositiveVariances ==
    (variant \in ItemPearsonVariants /\ phase = "done" /\ pctUsers = 100 /\ pctItems = 100) =>
        \A n \in 1 .. Len(csv) :
            LET co == CoRaters(csv[n][1], csv[n][2])
                cs == CoSums(co, csv[n][1], csv[n][2])
            IN  /\ Cardinality(co) * cs.x2 - cs.sx * cs.sx > 0
                /\ Cardinality(co) * cs.y2 - cs.sy * cs.sy > 0
                /\ Cardinality(co) > 1

\* the unshrunk score of an entry t of the pair (i, j) in the sharded runs
ShardRaw(t, i, j) ==
    IF variant = "jaccard_shard" THEN JaccardRaw(t, aux[i], aux[j])
    ELSE CosineNormRaw(t, aux[i], aux[j])

\* C23: every score s written by a sharded run for a pair with n
\* co-occurrences is raw * n / (n + shrink) of a strictly positive raw score:
\* equal to raw when shrink = 0, strictly below raw when shrink > 0, and, for
\* that raw score, strictly increasing in n (with shrink = 3: raw / 4 for
\* n = 1 and 3 * raw / 4 for n = 9).
C23_Shrinkage ==
    (variant \in ShardedVariants /\ phase = "done") =>
        \A n \in 1 .. Len(csv) :
            LET t == AllShards[<<csv[n][1], csv[n][2]>>]
                raw == ShardRaw(t, csv[n][1], csv[n][2])
                s == csv[n][3]
            IN  /\ SPositive(raw)
                /\ s.num > 0
                /\ s.num * s.num * raw.rad * (t.c + shrink) * (t.c + shrink)
                       = raw.num * raw.num * t.c * t.c * s.rad
                /\ shrink = 0 => s = raw
                /\ shrink > 0 =>
                       /\ SLess(s, raw)
                       /\ \A c1, c2 \in 1 .. 9 :
                              c1 < c2 => SLess(Shrunk(raw, c1), Shrunk(raw, c2))
                /\ shrink = 3 =>
                       /\ SEq(Shrunk(raw, 1), [num |-> raw.num, rad |-> 16 * raw.rad])
                       /\ SEq(Shrunk(raw, 9), [num |-> 3 * raw.num, rad |-> 16 * raw.rad])

\* shrink = 3 and a written pair with one co-occurrence: its score is raw / 4
C23_Witness ==
    /\ variant = "cosine_shard" /\ phase = "done"
    /\ shrink = 3
    /\ \E n \in 1 .. Len(csv) :
          LET t == AllShards[<<csv[n][1], csv[n][2]>>]
              raw == ShardRaw(t, csv[n][1], csv[n][2])
          IN  /\ t.c = 1
              /\ csv[n][3].num = raw.num
              /\ csv[n][3].rad = 16 * raw.rad

\* the items rated by user u in the file
RatedBy(u) == {i \in Items : \E n \in 1 .. Len(file) : file[n][1] = u /\ file[n][2] = i}

RECURSIVE SumRow(_, _)
\* sum of the ratings of user u over the items of S
SumRow(u, S) ==
    IF S = {} THEN 0
    ELSE LET i == CHOOSE x \in S : TRUE IN RatingOf(u, i) + SumRow(u, S \ {i})

\* n_u * (r_ui - mean_u)
UserCentred(u, i) == Cardinality(RatedBy(u)) * RatingOf(u, i) - SumRow(u, RatedBy(u))

RECURSIVE UserCoAcc(_, _, _)
\* the entry of the users u, v summed over the items of S, on centred values
UserCoAcc(S, u, v) ==
    IF S = {} THEN ZeroAcc
    ELSE LET i == CHOOSE x \in S : TRUE
             r == UserCoAcc(S \ {i}, u, v)
         IN  [r EXCEPT !.c = @ + 1,
                       !.xy = @ + UserCentred(u, i) * UserCentred(v, i),
                       !.x2 = @ + UserCentred(u, i) * UserCentred(u, i),
                       !.y2 = @ + UserCentred(v, i) * UserCentred(v, i)]

\* sampled items rated by both users
CommonItems(u, v) == {i \in RatedBy(u) \cap RatedBy(v) : keepByPct(i, pctItems)}

\* the accumulator of a user-based run, from the file and the sampling alone
UserAccRef ==
    [key \in {p \in Users \X Users :
                 /\ p[1] < p[2]
                 /\ keepByPct(p[1], pctUsers) /\ keepByPct(p[2], pctUsers)
                 /\ CommonItems(p[1], p[2]) # {}} |->
        UserCoAcc(CommonItems(key[1], key[2]), key[1], key[2])]

\* neighbours of u that qualify, from the reference accumulator
UserRefCands(u) ==
    {v \in Users : /\ <<u, v>> \in DOMAIN UserAccRef
                   /\ UserAccRef[<<u, v>>].c >= minCo
                   /\ UserAccRef[<<u, v>>].x2 # 0
                   /\ UserAccRef[<<u, v>>].y2 # 0}

UserRefScore(u, v) ==
    [num |-> UserAccRef[<<u, v>>].xy, rad |-> UserAccRef[<<u, v>>].x2 * UserAccRef[<<u, v>>].y2]

MomentScore(i, j) ==
    LET n == Cardinality(CoRaters(i, j))
        cs == CoSums(CoRaters(i, j), i, j)
    IN  [num |-> n * cs.xy - cs.sx * cs.sy,
         rad |-> (n * cs.x2 - cs.sx * cs.sx) * (n * cs.y2 - cs.sy * cs.sy)]

\* the pair is accepted by the moment-based filter
MomentAccepts(i, j) ==
    LET n == Cardinality(CoRaters(i, j))
        cs == CoSums(CoRaters(i, j), i, j)
    IN  /\ n >= minCo
        /\ n * cs.x2 - cs.sx * cs.sx > 0
        /\ n * cs.y2 - cs.sy * cs.sy > 0

\* C25: without sampling, the two item-based Pearson programs accept the same
\* pairs with the same scores: whichever of the two runs, every pair it writes
\* is accepted by the moment-based filter and carries the moment-based score,
\* and every accepted pair of a row with fewer than k neighbours is written.
C25_ItemPearsonVariantsAgree ==
    (variant \in ItemPearsonVariants /\ phase = "done" /\ pctUsers = 100 /\ pctItems = 100) =>
        /\ \A n \in 1 .. Len(csv) :
              /\ MomentAccepts(csv[n][1], csv[n][2])
              /\ SEq(csv[n][3], MomentScore(csv[n][1], csv[n][2]))
        /\ \A i, j \in Items :
              (/\ i < j
               /\ MomentAccepts(i, j)
               /\ Cardinality({n \in 1 .. Len(csv) : csv[n][1] = i}) < k)
                  => \E n \in 1 .. Len(csv) : csv[n][1] = i /\ csv[n][2] = j

\* positions of the raw rows remap accepts
ValidRaw == {n \in 1 .. Len(rawCsv) : Len(rawCsv[n]) >= 3}

\* first accepted row in which the id x appears in column c
FirstRow(x, c) ==
    CHOOSE n \in ValidRaw :
        /\ rawCsv[n][c] = x
        /\ \A m \in ValidRaw : rawCsv[m][c] = x => n <= m

\* idx maps the ids of column c one-to-one onto 0 .. N-1 in order of first appearance
FirstAppearance(idx, c) ==
    /\ DOMAIN idx = {rawCsv[n][c] : n \in ValidRaw}
    /\ {idx[x] : x \in DOMAIN idx} = 0 .. (Cardinality(DOMAIN idx) - 1)
    /\ \A x, y \in DOMAIN idx :
          /\ idx[x] = idx[y] => x = y
          /\ idx[x] < idx[y] <=> FirstRow(x, c) < FirstRow(y, c)

\* C26: once remap has written ratings_ui.csv, the user and item maps are
\* bijections onto 0..U-1 and 0..I-1 in order of first appearance, and the
\* written triplets are the accepted rows under these maps, sorted by uIdx
\* and, within a user, by iIdx.
C26_RemapBijectionSorted ==
    buf # <<>> =>
        /\ FirstAppearance(userIdx, 1)
        /\ FirstAppearance(itemIdx, 2)
        /\ Len(buf) = Cardinality(ValidRaw)
        /\ \A t \in {buf[n] : n \in 1 .. Len(buf)} :
              Cardinality({n \in 1 .. Len(buf) : buf[n] = t})
                  = Cardinality({n \in ValidRaw :
                        <<userIdx[rawCsv[n][1]], itemIdx[rawCsv[n][2]], rawCsv[n][3]>> = t})
        /\ \A n, m \in 1 .. Len(buf) :
              n < m => \/ buf[n][1] < buf[m][1]
                       \/ buf[n][1] = buf[m][1] /\ buf[n][2] <= buf[m][2]

\* userId 7 appeared before userId 3 and movieId 9 before movieId 5, and
\* the sort moved the second row of user 7 in front of the row of user 3
C26_Witness ==
    /\ ValidRaw = {1, 2, 3}
    /\ rawCsv[1][1] = 7 /\ rawCsv[1][2] = 9
    /\ rawCsv[2][1] = 3
    /\ rawCsv[3][1] = 7 /\ rawCsv[3][2] = 5
    /\ Len(buf) = 3
    /\ buf[2][1] = 0 /\ buf[2][2] = 1
    /\ buf[3][1] = 1

\* the users who rated item i in the file
RatersOf(i) == {u \in Users : \E n \in 1 .. Len(file) : file[n][1] = u /\ file[n][2] = i}

RECURSIVE SumCol(_, _)
\* sum of the ratings of item i over the users of S
SumCol(i, S) ==
    IF S = {} THEN 0
    ELSE LET u == CHOOSE x \in S : TRUE IN RatingOf(u, i) + SumCol(i, S \ {u})

\* n_i * (r_ui - mean_i)
ItemCentred(u, i) == Cardinality(RatersOf(i)) * RatingOf(u, i) - SumCol(i, RatersOf(i))

\* c.indptr is a row-pointer array for N rows over NNZ entries
RowPointers(c, N) ==
    /\ DOMAIN c.indptr = 0 .. N
    /\ c.indptr[0] = 0
    /\ \A r \in 0 .. N - 1 : c.indptr[r] <= c.indptr[r + 1]
    /\ c.indptr[N] = Len(file)
    /\ DOMAIN c.indices = 0 .. Len(file) - 1
    /\ DOMAIN c.data = 0 .. Len(file) - 1

\* the entries <<column, value>> stored for row r
RowEntries(c, r) ==
    {<<c.indices[p], c.data[p]>> : p \in c.indptr[r] .. c.indptr[r + 1] - 1}

\* C27: for a triplet file sorted by user, normalize builds a user CSR with
\* indptr of length U+1, indptr[0] = 0, non-decreasing, indptr[U] = NNZ, whose
\* range of user u holds exactly the ratings of u (empty for a user without
\* ratings), and an item CSR with the same properties on items, the user
\* indices ascending within each row.
C27_CsrRowPointers ==
    userCsr # EmptyCsr =>
        /\ RowPointers(userCsr, NormU)
        /\ \A u \in 0 .. NormU - 1 :
              /\ userCsr.indptr[u + 1] - userCsr.indptr[u] = Cardinality(RatedBy(u))
              /\ RowEntries(userCsr, u) = {<<i, UserCentred(u, i)>> : i \in RatedBy(u)}
        /\ RowPointers(itemCsr, MaxI)
        /\ \A i \in 0 .. MaxI - 1 :
              /\ itemCsr.indptr[i + 1] - itemCsr.indptr[i] = Cardinality(RatersOf(i))
              /\ RowEntries(itemCsr, i) = {<<u, ItemCentred(u, i)>> : u \in RatersOf(i)}
              /\ \A p, q \in itemCsr.indptr[i] .. itemCsr.indptr[i + 1] - 1 :
                    p < q => itemCsr.indices[p] < itemCsr.indices[q]

\* a file in which user 1 has no rating between users 0 and 2, and an item
\* rated by two users: user 1 gets an empty range
C27_Witness ==
    /\ userCsr # EmptyCsr
    /\ Len(file) = 4
    /\ NormU = 3
    /\ RatedBy(1) = {}
    /\ userCsr.indptr[1] = userCsr.indptr[2]
    /\ \E i \in Items : Cardinality(RatersOf(i)) = 2

\* every key of the map m is a pair (a, b) with a < b
KeysAscending(m) == \A key \in DOMAIN m : key[1] < key[2]

\* C28: in every accumulator of every concurrent program (shards, worker
\* maps, partial maps in flight, merged map), whatever the order of the ids
\* inside the baskets, every entry is keyed by a pair (a, b) with a < b.
C28_KeysCanonical ==
    /\ \A idx \in DOMAIN shards : KeysAscending(shards[idx])
    /\ \A w \in WorkerIds : KeysAscending(local[w])
    /\ \A n \in 1 .. Len(results) : KeysAscending(results[n])
    /\ KeysAscending(global)

\* key(a, b) of the sequential user-based programs: the two ids packed with
\* the lower one first; only the ids are exchanged
key(a, b) == IF a > b THEN <<b, a>> ELSE <<a, b>>

RECURSIVE SeqUserFrom(_, _, _, _)
\* the loops a < b over the users of one item, from (a, b) on: the entry
\* co[key(ua, ub)] gets  xy += xa*xb; x2 += xa*xa; y2 += xb*xb; c++
SeqUserFrom(m, users, a, b) ==
    IF a = 0 THEN m
    ELSE LET kp == key(users[a][1], users[b][1])
             t == Entry(m, kp)
             xa == users[a][2]
             xb == users[b][2]
             nx == NextPair(a, b, Len(users))
         IN  SeqUserFrom(Put(m, kp, [t EXCEPT !.xy = t.xy + xa * xb,
                                              !.x2 = t.x2 + xa * xa,
                                              !.y2 = t.y2 + xb * xb,
                                              !.c = t.c + 1]),
                         users, nx[1], nx[2])

RECURSIVE SeqUserCo(_, _)
\* co after the loop over the items i < n of itemUsers
SeqUserCo(lists, n) ==
    IF n = 0 THEN EmptyMap
    ELSE LET m == SeqUserCo(lists, n - 1)
         IN  IF Len(lists[n - 1]) < 2 THEN m
             ELSE SeqUserFrom(m, lists[n - 1], 1, 2)

\* the pair at the loop indices of worker w has its ids out of order
SwappedPair(w) == wjob[w][wa[w]][1] > wjob[w][wb[w]][1]

\* C29: whatever the order of the members inside a basket, the pair handed to
\* the shard has the lower id first with that member's value as x and the
\* other member's value as y (ids and values are exchanged together); and
\* the accumulation loop of the user-based programs, run on the inverted
\* index the load builds, leaves in every entry (u, v), u < v, the sum of
\* squares of u's values in the first squared-sum field and of v's values in
\* the second.
C29_RolesFollowIds ==
    /\ \A w \in WorkerIds :
          (variant \in ShardedVariants /\ wpc[w] \in {"pair", "crit"}) =>
              LET cn == WCanon(w)
              IN  /\ cn.i <= cn.j
                  /\ {<<cn.i, cn.x>>, <<cn.j, cn.y>>} = {wjob[w][wa[w]], wjob[w][wb[w]]}
                  /\ (cn.i < cn.j) =>
                        \E p, q \in {wa[w], wb[w]} :
                            /\ wjob[w][p] = <<cn.i, cn.x>>
                            /\ wjob[w][q] = <<cn.j, cn.y>>
    /\ (variant \in UserLocalVariants /\ phase # "init") =>
          /\ SeqUserCo(itemUsers, MaxI) = UserAccRef
          /\ \A i \in Items : \A p, q \in 1 .. Len(itemUsers[i]) :
                p < q => itemUsers[i][p][1] < itemUsers[i][q][1]

\* a worker holds the shard lock for a pair whose ids came out of order in the
\* basket and whose two values differ
C29_Witness ==
    \E w \in WorkerIds :
        /\ variant = "cosine_shard"
        /\ wpc[w] = "crit"
        /\ SwappedPair(w)
        /\ wjob[w][wa[w]][2] # wjob[w][wb[w]][2]

\* a user-based load whose index yields an entry with different squared sums
C29_UserCase ==
    /\ variant \in UserLocalVariants
    /\ phase # "init"
    /\ \E kp \in DOMAIN UserAccRef : UserAccRef[kp].x2 # UserAccRef[kp].y2

\* every entry of shard idx has been counted at least once
Counted(idx) == \A kp \in DOMAIN shards[idx] : shards[idx][kp].c >= 1

\* from one state to the next every entry stays, with a count not below
KeptAndGrowing ==
    \A idx \in DOMAIN shards :
        /\ idx \in DOMAIN shards'
        /\ \A kp \in DOMAIN shards[idx] :
              /\ kp \in DOMAIN shards'[idx]
              /\ shards'[idx][kp].c >= shards[idx][kp].c

\* C30: whenever the lock of a shard is free, every entry of the shard has a
\* count of at least 1; from any state to the next, up to the end of the run,
\* no entry disappears from a shard and no count decreases.
C30_CountedOutsideLock ==
    /\ [](\A idx \in DOMAIN shards : LockFree(idx) => Counted(idx))
    /\ [][KeptAndGrowing]_vars

\* two workers ran: the lock of a shard is free and an entry of it, created
\* by one update, has been incremented by a second one
C30_Witness ==
    /\ workers = 2
    /\ \E idx \in DOMAIN shards :
          /\ LockFree(idx)
          /\ \E kp \in DOMAIN shards[idx] : shards[idx][kp].c >= 2

\* inside the critical section: the entry is in the map with count 0
C30_CreatedUnderLock ==
    \E idx \in DOMAIN shards :
        /\ ~LockFree(idx)
        /\ \E kp \in DOMAIN shards[idx] : shards[idx][kp].c = 0

\* shardIndex gives the same shard for (i, j) and (j, i), a shard in 0..63
ShardIndexSymmetric ==
    \A p \in Ids \X Ids :
        /\ ShardOf[p] = ShardOf[<<p[2], p[1]>>]
        /\ ShardOf[p] \in 0 .. 63

\* goroutines that hold the mutex of shard idx
Holders(m, idx) == {o \in WorkerIds \cup {MainOwner} : <<idx, o>> \in m}

\* C31: on the ids of the model (the table of shardIndex is the same in
\* every state, it is looked at in the states before the run starts)
\* shardIndex(i, j) = shardIndex(j, i) and is a shard in 0..63; every
\* entry of a pair lies in the shard shardIndex gives for the pair, so every
\* update of a pair goes to one shard; a mutex has at most one holder, so no
\* two workers are in the critical section of a shard at once; a worker
\* between its read and its write of an entry holds the mutex of the shard; a
\* step that changes the map of a shard is taken by a holder of its mutex;
\* and the scan of a shard after the join is made with its mutex held.
C31_ShardOwnership ==
    /\ [](phase = "init" => ShardIndexSymmetric)
    /\ [](\A idx \in DOMAIN shards :
             /\ idx \in ShardIds
             /\ \A kp \in DOMAIN shards[idx] : ShardOf[kp] = idx)
    /\ [](\A idx \in ShardIds : Cardinality(Holders(mu, idx)) <= 1)
    /\ [](\A w \in WorkerIds :
             wpc[w] = "crit" =>
                 mu \cap {<<idx, w>> : idx \in ShardIds}
                     = {<<ShardOf[<<WCanon(w).i, WCanon(w).j>>], w>>})
    /\ [][\A idx \in ShardIds :
             ShardMap(idx)' # ShardMap(idx) =>
                 \E w \in WorkerIds : <<idx, w>> \in mu \cup mu']_vars
    /\ [][(scanIdx' # scanIdx /\ NextShard < numShards) =>
             <<NextShard, MainOwner>> \in mu]_vars

\* one worker is inside the critical section of a shard and the other one is
\* at the lock of the same shard, with the same pair in the other order
C31_Witness ==
    \E w, v \in WorkerIds :
        /\ w # v
        /\ wpc[w] = "crit"
        /\ wpc[v] = "pair"
        /\ WCanon(v).i # WCanon(v).j
        /\ ShardOf[<<WCanon(v).i, WCanon(v).j>>] = ShardOf[<<WCanon(w).i, WCanon(w).j>>]
        /\ shards # EmptyMap

\* the maps written by workers that hold an entry of the pair <<a, b>>:
\* shards of the global accumulator and maps private to a worker
WorkerCopies(a, b) ==
    {<<"shard", idx>> : idx \in ShardsHolding(a, b)}
        \cup {<<"local", w>> : w \in {v \in WorkerIds : <<a, b>> \in DOMAIN local[v]}}

\* C32: workers write into the one global accumulator: no pair has an entry
\* in more than one of the maps the workers write (shards, private maps), no
\* map of a worker is handed over as a partial result, and no partial
\* result is merged into the global map.
C32_NoPrivateCopies ==
    /\ \A a, b \in Ids : Cardinality(WorkerCopies(a, b)) <= 1
    /\ \A w \in WorkerIds : local[w] = EmptyMap
    /\ results = <<>>
    /\ nparts = 0

\* C33: the producer of the streaming readers owns at most one basket: the
\* completed baskets it has not yet sent on the job channel and the buffer
\* of the current user, when it holds an item, are never more than one; so a
\* completed basket has left the producer when the next user's first triplet
\* is buffered.
C33_OneBasketAtATime == Len(block) + (IF basket = <<>> THEN 0 ELSE 1) <= 1

\* the record n of the file passes both sampling filters
Admitted(n) == keepByPct(file[n][1], pctUsers) /\ keepByPct(file[n][2], pctItems)

RECURSIVE RefBasketUpTo(_, _)
\* the admitted items of user u among the first n records, in file order,
\* each with the value the reader of the variant attaches to it
RefBasketUpTo(u, n) ==
    IF n = 0 THEN <<>>
    ELSE IF file[n][1] = u /\ Admitted(n)
         THEN Append(RefBasketUpTo(u, n - 1),
                     <<file[n][2], IF variant = "jaccard_shard" THEN 1 ELSE file[n][3]>>)
         ELSE RefBasketUpTo(u, n - 1)

RECURSIVE RefBaskets(_)
\* the non-empty baskets of the users below u, in ascending user order
RefBaskets(u) ==
    IF u = 0 THEN <<>>
    ELSE LET b == RefBasketUpTo(u - 1, Len(file))
         IN  IF b = <<>> THEN RefBaskets(u - 1) ELSE Append(RefBaskets(u - 1), b)

IsPrefix(s, t) == Len(s) <= Len(t) /\ s = SubSeq(t, 1, Len(s))

StreamVariants == ShardedVariants \cup ItemLocalVariants

\* C34: on a file sorted by user, under every sampling of users and items,
\* the baskets the reader has emitted are at every moment the first ones of
\* the list "one basket per user with an admitted triplet, holding that
\* user's admitted items and nothing else, users ascending", and once the
\* file is read they are the whole list: no user twice, no two users in one
\* basket, no empty basket.
C34_OneBasketPerUser ==
    (variant \in StreamVariants) =>
        /\ IsPrefix(emitted, RefBaskets(3))
        /\ \A n \in 1 .. Len(emitted) : emitted[n] # <<>>
        /\ phase \notin {"init", "reading", "error"} => emitted = RefBaskets(3)

\* user 1 is rejected between the admitted users 0 and 2, the file starts
\* with a row rejected on its item, and the two baskets are out
C34_Witness ==
    /\ variant \in StreamVariants
    /\ phase = "done"
    /\ ~keepByPct(1, pctUsers) /\ keepByPct(0, pctUsers) /\ keepByPct(2, pctUsers)
    /\ {file[n][1] : n \in 1 .. Len(file)} = {0, 1, 2}
    /\ ~Admitted(1)
    /\ Len(emitted) = 2

\* the file starts with the rows of a rejected user
C34_LeadingRejected ==
    /\ variant \in StreamVariants
    /\ phase = "done"
    /\ file # <<>>
    /\ ~keepByPct(file[1][1], pctUsers)
    /\ emitted # <<>>

RECURSIVE Flat(_)
\* the baskets of a sequence of blocks, in order
Flat(q) == IF q = <<>> THEN <<>> ELSE Head(q) \o Flat(Tail(q))

\* the baskets emitted and not yet received by a worker, oldest first (the
\* variable block is not read again once the last block has been sent)
Pending ==
    IF variant \in ShardedVariants THEN jobs
    ELSE Flat(jobs) \o (IF phase \in {"reading", "flushing"} THEN block ELSE <<>>)

IsSuffix(s, t) == Len(s) <= Len(t) /\ s = SubSeq(t, Len(t) - Len(s) + 1, Len(t))

\* a receive on jobs hands the oldest job to one worker, whole
ReceivedByOne ==
    (variant \in StreamVariants /\ Len(jobs') < Len(jobs)) =>
        /\ jobs' = Tail(jobs)
        /\ IF variant \in ShardedVariants
           THEN Len(Head(jobs)) >= 2 =>
                    \E w \in WorkerIds :
                        /\ wjob[w] = <<>>
                        /\ wjob' = [wjob EXCEPT ![w] = Head(jobs)]
           ELSE \E w \in WorkerIds :
                    local' = [local EXCEPT ![w] = FlushAll(local[w], Head(jobs))]

\* C35: the baskets waiting between producer and workers are at every moment
\* the latest emitted ones, in order, each once; a receive takes the oldest
\* job and gives it to exactly one worker; and when the pool has been joined
\* nothing is left waiting, the last basket and the last block included, and
\* the accumulator counts every emitted basket exactly once for each of its
\* pairs, for one and two workers and every interleaving.
C35_EveryBasketOnce ==
    /\ [](variant \in StreamVariants => IsSuffix(Pending, emitted))
    /\ [][ReceivedByOne]_vars
    /\ []((variant \in ShardedVariants /\ AfterJoin) =>
             /\ Pending = <<>>
             /\ \A w \in WorkerIds : wjob[w] = <<>>
             /\ \A a, b \in Ids :
                   a < b => Entry(ShardMap(ShardOf[<<a, b>>]), <<a, b>>).c = BasketsWith(a, b))
    /\ []((variant \in ItemLocalVariants /\ AfterReduce) =>
             /\ Pending = <<>>
             /\ global = FlushAll(EmptyMap, emitted))

\* two workers, three users, one of them with a pair of items: a full block
\* of two baskets and a last block of one basket were sent, and the run is over
C35_Witness ==
    /\ variant \in ItemLocalVariants
    /\ workers = 2
    /\ phase = "done"
    /\ Len(emitted) = 3
    /\ global # EmptyMap

\* what a reader of the slice s finds in it now
Content(s) == SubSeq(heap[s.ptr], 1, s.len)

\* the slices sent: queued, or in the hands of a worker
SentSlices == {queued[n] : n \in 1 .. Len(queued)} \cup {held[n] : n \in 1 .. Len(held)}

\* C36: every basket sent by emitUser, whether still queued or received by a
\* worker, reads at every later moment as it read when it was sent, and its
\* backing array is neither the one of the reading buffer nor the one of
\* another basket: truncating the buffer and appending the next user's items
\* changes no basket.
C36_SentBasketsFrozen ==
    /\ \A s \in SentSlices : Content(s) = s.sent /\ s.ptr # itemsPtr
    /\ \A s, t \in SentSlices : s.ptr = t.ptr => s = t
    /\ itemsPtr # 0 => SubSeq(heap[itemsPtr], 1, Len(basket)) = basket

\* a basket is in the hands of a worker, another one is queued, and the
\* reading buffer, reused since, holds an item of a later user in its first slot
C36_Witness ==
    /\ held # <<>>
    /\ queued # <<>>
    /\ basket # <<>>
    /\ heap[itemsPtr][1] = basket[1]
    /\ held[1].sent[1] # basket[1]
    /\ queued[1].sent[1] # basket[1]

\* the entries <<u, r'>> of the CSR in column i whose user and item are both
\* admitted, from the file and the sampling alone
AdmittedColumn(i) ==
    IF keepByPct(i, pctItems)
    THEN {<<u, UserCentred(u, i)>> : u \in {v \in RatersOf(i) : keepByPct(v, pctUsers)}}
    ELSE {}

\* C37: in user mode, once the index is built, the list of every item i
\* holds exactly the (u, centred rating) of the CSR entries (u, i) with u and
\* i admitted by the sampling, each once, users strictly ascending; a
\* rejected user is in no list and the list of a rejected item is empty.
C37_InvertedIndex ==
    (variant \in UserLocalVariants /\ phase # "init") =>
        \A i \in Items :
            /\ {itemUsers[i][n] : n \in 1 .. Len(itemUsers[i])} = AdmittedColumn(i)
            /\ Len(itemUsers[i]) = Cardinality(AdmittedColumn(i))
            /\ \A p, q \in 1 .. Len(itemUsers[i]) :
                  p < q => itemUsers[i][p][1] < itemUsers[i][q][1]
            /\ \A n \in 1 .. Len(itemUsers[i]) : keepByPct(itemUsers[i][n][1], pctUsers)
            /\ ~keepByPct(i, pctItems) => itemUsers[i] = <<>>

\* half of the users and of the items are sampled: item 0 is rated by the
\* users 0, 1 and 2 and its list holds 0 and 2; item 1, rated too, has none
C37_Witness ==
    /\ variant \in UserLocalVariants
    /\ phase # "init"
    /\ pctUsers = 50 /\ pctItems = 50
    /\ RatersOf(0) = {0, 1, 2}
    /\ RatersOf(1) # {}
    /\ Len(itemUsers[0]) = 2
    /\ itemUsers[1] = <<>>

\* C38: for every id and all percentages p <= p', below 0 and above 100
\* included, an id admitted at p is admitted at p': the sample at 5% lies in
\* the samples at 10%, 25%, 50% and 100%.
C38_SamplingMonotone ==
    (probe # <<>> /\ probe[3]) =>
        \A p \in ProbePcts : p >= probe[2] => keepByPct(probe[1], p)

\* an id admitted at 5% (keepByPct answered TRUE) and so at every higher percentage
C38_Witness ==
    /\ probe # <<>>
    /\ probe[2] = 5
    /\ probe[3]
    /\ ~keepByPct(probe[1], 1)

\* number of users of the file that rated both a and b
RefWith(a, b) ==
    Cardinality({n \in 1 .. Len(RefBaskets(3)) :
                    /\ a \in BasketItems(RefBaskets(3)[n])
                    /\ b \in BasketItems(RefBaskets(3)[n])})

\* C39: in every program that reads the triplet file record by record, with
\* a line the csv reader cannot read somewhere in the file, the finished run
\* has emitted the basket of every user from all the well-formed records,
\* those after the unreadable line included, and its accumulator holds the
\* contribution of each of them.
C39_LaterRecordsProcessed ==
    (variant \in StreamVariants /\ phase = "done") =>
        /\ emitted = RefBaskets(3)
        /\ variant \in ShardedVariants =>
               \A a \in Ids, b \in Ids :
                   a < b => Entry(ShardMap(ShardOf[<<a, b>>]), <<a, b>>).c = RefWith(a, b)
        /\ variant \in ItemLocalVariants => global = FlushAll(EmptyMap, RefBaskets(3))

\* the same for the readers that skip the line and go on
C39_SkippingReaders ==
    (variant \in ItemLocalVariants /\ phase = "done") =>
        /\ emitted = RefBaskets(3)
        /\ global = FlushAll(EmptyMap, RefBaskets(3))

\* a finished run of such a reader on a file with the unreadable line before
\* its second record and a pair rated after it
C39_SkippedAndCounted ==
    /\ variant \in ItemLocalVariants /\ phase = "done"
    /\ badAt = 2
    /\ Len(file) = 3
    /\ global # EmptyMap

\* the test triplets of user u
TestOf(u) == {n \in 1 .. Len(test) : test[n][1] = u}

\* the ratings of user u in the file, as <<i, r>>
RatingsOf(u) == {<<file[n][2], file[n][3]>> : n \in {m \in 1 .. Len(file) : file[m][1] = u}}

\* user u is split into two non-empty parts that share nothing and together
\* are the ratings of u
Partitioned(u) ==
    /\ u \in DOMAIN train
    /\ TestOf(u) # {} /\ DOMAIN train[u] # {}
    /\ \A n \in TestOf(u) : test[n][2] \notin DOMAIN train[u]
    /\ \A n, m \in TestOf(u) : test[n][2] = test[m][2] => n = m
    /\ {<<test[n][2], test[n][3]>> : n \in TestOf(u)}
            \cup {<<i, train[u][i]>> : i \in DOMAIN train[u]} = RatingsOf(u)

\* user u is in neither part
Absent(u) == u \notin DOMAIN train /\ TestOf(u) = {}

\* C40: in the evaluator, for every value of test_ratio, every user of two
\* or more ratings the split loop has been through has a test part and a
\* train part that are disjoint, together hold all the ratings of the user
\* and hold at least one rating each; every other user is in neither part.
C40_HoldOutPartition ==
    variant = "recommend" =>
        \A u \in Users :
            IF u \in visited /\ Cardinality(RatingsOf(u)) >= 2 THEN Partitioned(u) ELSE Absent(u)

\* the same for the values of test_ratio whose szTest the type int holds
C40_RepresentableRatios ==
    (variant = "recommend" /\ testRatio[1] \in {"fin", "neginf"}) =>
        \A u \in Users :
            IF u \in visited /\ Cardinality(RatingsOf(u)) >= 2 THEN Partitioned(u) ELSE Absent(u)

\* a user of three ratings split at test_ratio 3 (two in test, one in train)
\* and a user of one rating passed over
C40_SplitAndSkipped ==
    /\ variant = "recommend" /\ testRatio = Fin(3, 1)
    /\ \E u \in visited : Cardinality(RatingsOf(u)) = 3 /\ Cardinality(TestOf(u)) = 2
    /\ \E u \in visited : Cardinality(RatingsOf(u)) = 1

====
